---- MODULE Spec2Model ----
(***************************************************************************)
(* Model of the vector memory store of angel-memory.                       *)
(*                                                                         *)
(*   MemoryStoreFixed  (src/FIXES/memory_store_fix.py): the multi-user,    *)
(*       versioned, soft-deleting, audited store.  Specification SpecFixed.*)
(*   MemoryStore       (src/modules/memory_store.py): the single-user      *)
(*       store with the two lazily loaded caches.  Specification SpecStore.*)
(*                                                                         *)
(* Text content is a sequence of character codes, uids and memory ids are  *)
(* strings, timestamps are integers (one unit = one day of the clock),     *)
(* SQL NULL / Python None of a timestamp is NULL.                          *)
(***************************************************************************)
EXTENDS Integers, Sequences, FiniteSets, TLC

VARIABLES
    now,               \* the wall clock read by datetime.now(timezone.utc)
    steps,             \* calls made and clock ticks so far
    rng,               \* MemoryStoreFixed: vectors drawn so far from np.random
    users,             \* MemoryStoreFixed: table users (set of uid)
    memories,          \* MemoryStoreFixed: table memories (set of rows)
    embeddings,        \* MemoryStoreFixed: table embeddings (set of rows)
    audit_log,         \* MemoryStoreFixed: table audit_log (sequence, by autoincrement id)
    updates,           \* history: per (id, uid), update_memory calls that returned True since the add
    written,           \* history: per (id, uid), the content of the last add/update that returned True
    last,              \* the last call made: its name, what it returned, what it logged
                       \* (and for MemoryStore whether it found the memory cache loaded)
    db_memories,       \* MemoryStore: table memories (set of rows)
    db_embeddings,     \* MemoryStore: table embeddings (set of rows)
    memories_cache,    \* MemoryStore._memories_cache (None or a list)
    embeddings_cache,  \* MemoryStore._embeddings_cache (None or a matrix, a list of rows)
    codec,             \* a content string on its way through _compress_content and
                       \* _decompress_content: the string and what each call returned
    breaker,           \* a CircuitBreaker: its configuration, its fields, and the history
                       \* of the calls recorded on it
    limiter,           \* a RateLimiter: its fields, the holder of its lock, and the
                       \* history of the tokens it granted
    callers,           \* the threads calling RateLimiter.acquire: where each one is in
                       \* the call, its argument, and the buckets it saw after its refill
    backoff,           \* one ExponentialBackoff.retry call: the configuration, the loop
                       \* variable, and the history of invocations and sleeps
    workers            \* the threads inside a store call that overlaps other calls: where
                       \* each one is in its call, and the call's local variables

fixedVars == <<users, memories, embeddings, audit_log, updates, written>>
storeVars == <<db_memories, db_embeddings, memories_cache, embeddings_cache>>
apiVars == <<breaker, limiter, callers, backoff>>
raceVars == <<workers>>
utilVars == <<codec, apiVars, raceVars>>
vars == <<now, steps, rng, last, fixedVars, storeVars, utilVars>>

(***************************************************************************)
(* Bounds of the model.                                                    *)
(***************************************************************************)
MaxSteps == 4       \* calls and clock ticks explored in one behaviour
LongLen == 1025     \* length of the long content offered to the store

NULL == -1

(***************************************************************************)
(* Program constants.                                                      *)
(***************************************************************************)
COMPRESSION_THRESHOLD == 1024
dimension == 2

(***************************************************************************)
(* Inputs offered to the calls.                                            *)
(***************************************************************************)
SPACE == 32
Empty == <<>>
Blank == <<SPACE, SPACE>>
Short == <<120>>
Long == [i \in 1..LongLen |-> 65]
Contents == {Empty, Blank, Short, Long}

\* metadata: Optional[Dict[str, Any]]. A dict is a set of <<key, value>> pairs;
\* the optional argument is a sequence of length 0 (None) or 1 (the dict)
NoMetadata == <<>>
Tagged == <<{<<"tag", "a">>}>>
MetadataDicts == {{}, {<<"tag", "a">>}}

\* (content, metadata) pairs offered to add_memory and update_memory
Requests == {<<Empty, NoMetadata>>, <<Blank, NoMetadata>>, <<Short, NoMetadata>>,
             <<Long, Tagged>>}

Uids == {"", "u1", "u2"}
MemoryIds == {"", "m1"}
DaysOld == {0, 1}

\* what the embedder may return: a vector, or None (as NoVector) when it fails
Vectors == {<<1, 0>>, <<1, 1>>}
NoVector == <<>>

\* (top_k, min_similarity) pairs offered to search; a similarity floor m is
\* given as the fraction <<p, q>> of its square m * m
SearchRequests == {<<1, <<0, 1>>>>, <<5, <<81, 100>>>>}
Limits == {0, 1}

(***************************************************************************)
(* str methods used by the validation.                                     *)
(***************************************************************************)
\* content.strip() == "" : every character is whitespace
strip_is_empty(content) == \A i \in 1..Len(content) : content[i] = SPACE

\* not content or not content.strip()
content_invalid(content) == Len(content) = 0 \/ strip_is_empty(content)

\* not uid or not uid.strip()
uid_invalid(uid) == uid \in {"", " "}

\* json.dumps(d) of a dict with at most one string-valued key
json_text(d) ==
    IF d = {} THEN "{}"
    ELSE LET kv == CHOOSE kv \in d : TRUE
         IN  "{\"" \o kv[1] \o "\": \"" \o kv[2] \o "\"}"

\* json.dumps(metadata or {})
json_dumps(metadata) ==
    json_text(IF metadata = NoMetadata THEN {} ELSE metadata[1])

\* json.loads(metadata) if metadata else {} : the dict that the text denotes
json_loads(metadata_json) ==
    IF metadata_json = "" THEN {}
    ELSE CHOOSE d \in MetadataDicts : json_text(d) = metadata_json

(***************************************************************************)
(* Codec: content.encode('utf-8'), zlib.compress / decompress, hex.        *)
(* zlib's DEFLATE is represented by a byte-level run-length code (runs of  *)
(* at most 255), a lossless compressor with the same interface.  Sequences *)
(* are processed by halves, so that long strings need no deep recursion.   *)
(***************************************************************************)
\* bytes of one code point in UTF-8
utf8_char(c) == IF c < 128 THEN <<c>>
                ELSE <<192 + (c \div 64), 128 + (c % 64)>>

\* variant: the threshold is compared with len(content), the number of characters
utf8_len_characters(content) == Len(content)

\* len(content.encode('utf-8'))
utf8_len(content) ==
    Len(content) + Cardinality({i \in 1..Len(content) : content[i] >= 128})

RECURSIVE utf8_encode_range(_, _, _)
\* the UTF-8 bytes of content[lo..hi]
utf8_encode_range(content, lo, hi) ==
    IF lo > hi THEN <<>>
    ELSE IF lo = hi THEN utf8_char(content[lo])
    ELSE LET mid == (lo + hi) \div 2
         IN  utf8_encode_range(content, lo, mid) \o utf8_encode_range(content, mid + 1, hi)

\* content.encode('utf-8')
utf8_encode(content) == utf8_encode_range(content, 1, Len(content))

\* two run-length codes put end to end; the last run of the first and the
\* first run of the second become one run when they repeat the same byte and
\* the count still fits a byte
rle_join(left, right) ==
    IF Len(left) = 0 \/ Len(right) = 0 THEN left \o right
    ELSE LET n == Len(left)
         IN  IF left[n] = right[2] /\ left[n - 1] + right[1] <= 255
             THEN SubSeq(left, 1, n - 2)
                  \o <<left[n - 1] + right[1], right[2]>>
                  \o SubSeq(right, 3, Len(right))
             ELSE left \o right

RECURSIVE rle_range(_, _, _)
\* a run-length code of bytes[lo..hi]: (count, byte) pairs with count <= 255
rle_range(bytes, lo, hi) ==
    IF lo > hi THEN <<>>
    ELSE IF lo = hi THEN <<1, bytes[lo]>>
    ELSE LET mid == (lo + hi) \div 2
         IN  rle_join(rle_range(bytes, lo, mid), rle_range(bytes, mid + 1, hi))

zlib_compress(bytes) == rle_range(bytes, 1, Len(bytes))

RECURSIVE rle_expand(_, _, _)
\* the bytes that the pairs lo..hi of a run-length code stand for
rle_expand(packed, lo, hi) ==
    IF lo > hi THEN <<>>
    ELSE IF lo = hi THEN [i \in 1..packed[2 * lo - 1] |-> packed[2 * lo]]
    ELSE LET mid == (lo + hi) \div 2
         IN  rle_expand(packed, lo, mid) \o rle_expand(packed, mid + 1, hi)

zlib_decompress(packed) == rle_expand(packed, 1, Len(packed) \div 2)

\* bytes.hex(): two lowercase hex digits per byte, as character codes
hex_digit_code(n) == IF n < 10 THEN 48 + n ELSE 87 + n

hex(bytes) ==
    [i \in 1..(2 * Len(bytes)) |->
        IF i % 2 = 1 THEN hex_digit_code(bytes[(i + 1) \div 2] \div 16)
                     ELSE hex_digit_code(bytes[i \div 2] % 16)]

hex_value(code) == IF code >= 97 THEN code - 87 ELSE code - 48

\* bytes.fromhex(text)
fromhex(text) ==
    [i \in 1..(Len(text) \div 2) |->
        16 * hex_value(text[2 * i - 1]) + hex_value(text[2 * i])]

\* the character that starts at byte i: none at a continuation byte
utf8_decode_at(bytes, i) ==
    IF bytes[i] < 128 THEN <<bytes[i]>>
    ELSE IF bytes[i] < 192 THEN <<>>
    ELSE <<(bytes[i] - 192) * 64 + (bytes[i + 1] - 128)>>

RECURSIVE utf8_decode_range(_, _, _)
\* the characters that start in bytes[lo..hi]
utf8_decode_range(bytes, lo, hi) ==
    IF lo > hi THEN <<>>
    ELSE IF lo = hi THEN utf8_decode_at(bytes, lo)
    ELSE LET mid == (lo + hi) \div 2
         IN  utf8_decode_range(bytes, lo, mid) \o utf8_decode_range(bytes, mid + 1, hi)

\* bytes.decode('utf-8')
utf8_decode(bytes) == utf8_decode_range(bytes, 1, Len(bytes))

\* _compress_content(content) -> (payload, is_compressed)
compress_content(content) ==
    IF utf8_len(content) > COMPRESSION_THRESHOLD
    THEN <<hex(zlib_compress(utf8_encode(content))), TRUE>>
    ELSE <<content, FALSE>>

\* compress_content over the contents offered, evaluated once
Compressed == [c \in Contents |-> compress_content(c)]

\* _decompress_content(content, compressed)
decompress_content(content, compressed) ==
    IF compressed THEN utf8_decode(zlib_decompress(fromhex(content)))
    ELSE content

\* decompress_content over the payloads compress_content produces, evaluated once
Decompressed ==
    [p \in {Compressed[c] : c \in Contents} |-> decompress_content(p[1], p[2])]

(***************************************************************************)
(* Helpers for SQL result sets.                                            *)
(***************************************************************************)
\* every sequence that lists the rows of S exactly once
Permutations_of(S) ==
    {f \in [1..Cardinality(S) -> S] : \A i, j \in 1..Cardinality(S) : f[i] = f[j] => i = j}

\* rows[offset+1 .. offset+limit] : SQL LIMIT ? OFFSET ? (a negative limit is no limit)
limit_offset(rows, limit, offset) ==
    LET first == offset + 1
        lst == IF limit < 0 \/ offset + limit > Len(rows) THEN Len(rows) ELSE offset + limit
    IN  SubSeq(rows, first, lst)

(***************************************************************************)
(* MemoryStoreFixed                                                        *)
(***************************************************************************)
\* sqlite3.connect() never issues PRAGMA foreign_keys = ON, so SQLite does not
\* enforce the FOREIGN KEY ... ON DELETE CASCADE clauses of the schema
foreign_keys == FALSE

\* f"mem_{uid}_{datetime.now(timezone.utc).timestamp()}"
generated_id(uid, t) == "mem_" \o uid \o "_" \o ToString(t)

\* np.random.randn(self.dimension).astype(np.float32): the k-th vector drawn
\* (two draws never give the same vector)
randn(k) == [i \in 1..dimension |-> k * dimension + i]

\* PRIMARY KEY (id, uid) of memories: would inserting (id, uid) raise IntegrityError
memories_pk_conflict(id, uid) == \E r \in memories : r.id = id /\ r.uid = uid

\* PRIMARY KEY (memory_id, uid) of embeddings
embeddings_pk_conflict(id, uid) == \E e \in embeddings : e.memory_id = id /\ e.uid = uid

\* variant: the rows are written with INSERT OR REPLACE, which never raises
insert_raises_never(id, uid) == FALSE

\* the two INSERTs of add_memory: does one of them raise sqlite3.IntegrityError
insert_raises(id, uid) ==
    memories_pk_conflict(id, uid) \/ embeddings_pk_conflict(id, uid)

\* _ensure_user_exists: INSERT OR IGNORE INTO users, committed on its own connection
ensure_user_exists(uid) == users \cup {uid}

\* variant: the new row is put in front of the older ones
audit_prepend(uid, action, memory_id, audit_ok) ==
    <<[uid |-> uid, action |-> action, memory_id |-> memory_id,
       timestamp |-> now]>> \o audit_log

\* _audit_log: one appended row, or nothing when the insert raises (swallowed)
audit_append(uid, action, memory_id, audit_ok) ==
    IF audit_ok
    THEN Append(audit_log, [uid |-> uid, action |-> action,
                            memory_id |-> memory_id, timestamp |-> now])
    ELSE audit_log

\* variant: _audit_log lets the exception of a failed insert out, and the
\* caller's except clause turns it into a False return
audit_result_raising(audit_ok, result) == IF audit_ok THEN result ELSE FALSE

\* what the caller returns after _audit_log: the exception of a failed insert
\* is caught and logged inside _audit_log, so the caller reaches its return
audit_result(audit_ok, result) == result

\* variant: the WHERE clause has no deleted_at IS NULL
active_rows_with_deleted(uid, id) ==
    {r \in memories : r.id = id /\ r.uid = uid}

\* WHERE id = ? AND uid = ? AND deleted_at IS NULL
active_rows(uid, id) ==
    {r \in memories : r.id = id /\ r.uid = uid /\ r.deleted_at = NULL}

\* variant: the WHERE clause names the id alone
soft_delete_rows_any_uid(uid, id) ==
    {r \in memories : r.id = id}

\* WHERE id = ? AND uid = ?   (soft_delete_memory's UPDATE ... RETURNING id)
soft_delete_rows(uid, id) ==
    {r \in memories : r.id = id /\ r.uid = uid}

\* variant: the version is written back unchanged
new_version_same(row) == row.version

\* new_version = row[0] + 1
new_version(row) == row.version + 1

\* the dict built from a selected row: the content column as stored
row_dict(r) ==
    [id |-> r.id, content |-> r.content, metadata |-> json_loads(r.metadata),
     created_at |-> r.created_at, updated_at |-> r.updated_at, version |-> r.version]

\* get_memory(uid, memory_id): Optional[Dict] as a sequence of length 0 (None) or 1
get_memory(uid, memory_id) ==
    LET rows == active_rows(uid, memory_id)
    IN  IF rows = {} THEN <<>> ELSE <<row_dict(CHOOSE r \in rows : TRUE)>>

\* variant: the WHERE clause has no uid = ?
user_rows_all_users(uid) == {r \in memories : r.deleted_at = NULL}

\* WHERE uid = ? AND deleted_at IS NULL
user_rows(uid) == {r \in memories : r.uid = uid /\ r.deleted_at = NULL}

\* variant: ORDER BY created_at DESC
order_by_created_desc(rows) ==
    {f \in Permutations_of(rows) :
        \A i, j \in 1..Len(f) : i < j => f[i].created_at >= f[j].created_at}

\* ORDER BY updated_at DESC: every order SQLite may return (ties are unordered)
order_by_updated_desc(rows) ==
    {f \in Permutations_of(rows) :
        \A i, j \in 1..Len(f) : i < j => f[i].updated_at >= f[j].updated_at}

\* get_user_memories(uid, limit, offset): the lists the call may return
get_user_memories(uid, limit, offset) ==
    {[i \in 1..Len(limit_offset(f, limit, offset)) |->
          row_dict(limit_offset(f, limit, offset)[i])] :
     f \in order_by_updated_desc(user_rows(uid))}

\* cutoff_date = (datetime.now(timezone.utc) - timezone.utc.timedelta(days=days_old))
\* timezone.utc has no attribute timedelta: evaluating the expression raises AttributeError
AttributeError == -2
cutoff_date(t, days_old) == AttributeError

\* DELETE FROM memories WHERE uid = ? AND deleted_at IS NOT NULL AND deleted_at < ?
purge_rows(uid, cutoff) ==
    {r \in memories : r.uid = uid /\ r.deleted_at # NULL /\ r.deleted_at < cutoff}

\* one more call or clock tick, within the bound
Step ==
    /\ steps < MaxSteps
    /\ steps' = steps + 1

\* the memory ids a caller may name: the offered ones and those generated so far
KnownIds == MemoryIds \cup {r.id : r \in memories}

InitFixed ==
    /\ users = {}
    /\ memories = {}
    /\ embeddings = {}
    /\ audit_log = <<>>
    /\ updates = <<>>
    /\ written = <<>>

Fixed_add_memory(uid, content, metadata, memory_id, audit_ok) ==
    IF content_invalid(content)
    THEN /\ last' = [op |-> "add_memory", ret |-> FALSE, log |-> "empty_content"]
         /\ UNCHANGED <<rng, fixedVars>>
    ELSE IF uid_invalid(uid)
    THEN /\ last' = [op |-> "add_memory", ret |-> FALSE, log |-> "uid_required"]
         /\ UNCHANGED <<rng, fixedVars>>
    ELSE LET payload == Compressed[content]
             mid == IF memory_id = "" THEN generated_id(uid, now) ELSE memory_id
             row == [id |-> mid, uid |-> uid, content |-> payload[1],
                     metadata |-> json_dumps(metadata), created_at |-> now,
                     updated_at |-> now, deleted_at |-> NULL,
                     compressed |-> payload[2], version |-> 1]
             erow == [memory_id |-> mid, uid |-> uid, embedding |-> randn(rng),
                      created_at |-> now]
         IN  /\ users' = ensure_user_exists(uid)
             /\ rng' = rng + 1
             /\ IF insert_raises(mid, uid)
                THEN \* sqlite3.IntegrityError: rollback, return False
                     /\ last' = [op |-> "add_memory", ret |-> FALSE,
                                 log |-> "integrity_error"]
                     /\ UNCHANGED <<memories, embeddings, audit_log, updates, written>>
                ELSE /\ memories' = memories \cup {row}
                     /\ embeddings' = embeddings \cup {erow}
                     /\ audit_log' = audit_append(uid, "CREATE", mid, audit_ok)
                     /\ updates' = (<<mid, uid>> :> 0) @@ updates
                     /\ written' = (<<mid, uid>> :> content) @@ written
                     /\ last' = [op |-> "add_memory", ret |-> audit_result(audit_ok, TRUE),
                                 log |-> "added"]

AddMemory ==
    \E uid \in Uids, req \in Requests, memory_id \in MemoryIds :
        /\ Step
        /\ Fixed_add_memory(uid, req[1], req[2], memory_id, TRUE)
        /\ UNCHANGED <<now, storeVars, utilVars>>

Fixed_update_memory(uid, memory_id, content, metadata, audit_ok) ==
    IF content_invalid(content)
    THEN /\ last' = [op |-> "update_memory", ret |-> FALSE, log |-> "empty_content"]
         /\ UNCHANGED <<rng, fixedVars>>
    ELSE /\ users' = ensure_user_exists(uid)
         /\ IF active_rows(uid, memory_id) = {}
            THEN /\ last' = [op |-> "update_memory", ret |-> FALSE, log |-> "not_found"]
                 /\ UNCHANGED <<rng, memories, embeddings, audit_log, updates, written>>
            ELSE LET old == CHOOSE r \in active_rows(uid, memory_id) : TRUE
                     payload == Compressed[content]
                     version == new_version(old)
                 IN  /\ rng' = rng + 1
                     /\ memories' =
                          (memories \ active_rows(uid, memory_id)) \cup
                          {[r EXCEPT !.content = payload[1],
                                     !.metadata = json_dumps(metadata),
                                     !.updated_at = now,
                                     !.compressed = payload[2],
                                     !.version = version] :
                           r \in active_rows(uid, memory_id)}
                     /\ embeddings' =
                          {IF e.memory_id = memory_id /\ e.uid = uid
                           THEN [e EXCEPT !.embedding = randn(rng), !.created_at = now]
                           ELSE e : e \in embeddings}
                     /\ audit_log' = audit_append(uid, "UPDATE", memory_id, audit_ok)
                     /\ updates' = [updates EXCEPT ![<<memory_id, uid>>] = @ + 1]
                     /\ written' = [written EXCEPT ![<<memory_id, uid>>] = content]
                     /\ last' = [op |-> "update_memory", ret |-> audit_result(audit_ok, TRUE),
                                 log |-> "updated"]

UpdateMemory ==
    \E uid \in Uids, memory_id \in KnownIds, req \in Requests :
        /\ Step
        /\ Fixed_update_memory(uid, memory_id, req[1], req[2], TRUE)
        /\ UNCHANGED <<now, storeVars, utilVars>>

Fixed_soft_delete_memory(uid, memory_id, audit_ok) ==
    IF soft_delete_rows(uid, memory_id) # {}
    THEN /\ memories' = (memories \ soft_delete_rows(uid, memory_id)) \cup
                        {[r EXCEPT !.deleted_at = now] : r \in soft_delete_rows(uid, memory_id)}
         /\ audit_log' = audit_append(uid, "DELETE", memory_id, audit_ok)
         /\ last' = [op |-> "soft_delete_memory", ret |-> audit_result(audit_ok, TRUE),
                                 log |-> "soft_deleted"]
         /\ UNCHANGED <<rng, users, embeddings, updates, written>>
    ELSE /\ last' = [op |-> "soft_delete_memory", ret |-> FALSE, log |-> "not_found"]
         /\ UNCHANGED <<rng, fixedVars>>

SoftDeleteMemory ==
    \E uid \in Uids, memory_id \in KnownIds :
        /\ Step
        /\ Fixed_soft_delete_memory(uid, memory_id, TRUE)
        /\ UNCHANGED <<now, storeVars, utilVars>>

Fixed_purge_deleted(uid, days_old, audit_ok) ==
    LET cutoff == cutoff_date(now, days_old)
    IN  IF cutoff = AttributeError
        THEN \* except Exception: return 0
             /\ last' = [op |-> "purge_deleted", ret |-> 0, log |-> "purge_failed"]
             /\ UNCHANGED <<rng, fixedVars>>
        ELSE LET gone == purge_rows(uid, cutoff)
                 deleted_count == Cardinality(gone)
             IN  /\ memories' = memories \ gone
                 /\ embeddings' =
                      IF foreign_keys
                      THEN {e \in embeddings :
                              ~ \E r \in gone : r.id = e.memory_id /\ r.uid = e.uid}
                      ELSE embeddings
                 /\ audit_log' = IF deleted_count > 0
                                 THEN audit_append(uid, "PURGE", "", audit_ok)
                                 ELSE audit_log
                 /\ last' = [op |-> "purge_deleted", ret |-> deleted_count,
                             log |-> IF deleted_count > 0 THEN "purged" ELSE "none"]
                 /\ UNCHANGED <<rng, users, updates, written>>

PurgeDeleted ==
    \E uid \in Uids, days_old \in DaysOld :
        /\ Step
        /\ Fixed_purge_deleted(uid, days_old, TRUE)
        /\ UNCHANGED <<now, storeVars, utilVars>>

\* the clock advances between calls
Tick ==
    /\ Step
    /\ now' = now + 1
    /\ UNCHANGED <<rng, last, fixedVars, storeVars, utilVars>>

(***************************************************************************)
(* MemoryStore.  An Optional value (a cache, None when not loaded) is a    *)
(* sequence of length 0 (None) or 1 (the value).                           *)
(***************************************************************************)
NoCache == <<>>

InitStore ==
    /\ db_memories = {}
    /\ db_embeddings = {}
    /\ memories_cache = NoCache
    /\ embeddings_cache = NoCache

\* f"mem_{datetime.now(timezone.utc).timestamp()}"
store_generated_id(t) == "mem_" \o ToString(t)

\* the dict built from a memories row, content decompressed
memory_dict(r) ==
    [id |-> r.id, content |-> Decompressed[<<r.content, r.compressed>>],
     metadata |-> json_loads(r.metadata), created_at |-> r.created_at,
     embedding_dimension |-> dimension]

\* the rowid SQLite gives the next row inserted into a table: one more than
\* the largest in use
next_rowid(table) ==
    IF table = {} THEN 1
    ELSE (CHOOSE n \in {r.rowid : r \in table} : \A r \in table : r.rowid <= n) + 1

\* SELECT ... FROM memories ORDER BY created_at DESC: the rows sorted from a
\* scan of the table; SQLite returns rows with equal created_at in scan order,
\* by rowid
select_memories_desc ==
    {f \in Permutations_of(db_memories) :
        \A i, j \in 1..Len(f) :
            i < j => \/ f[i].created_at > f[j].created_at
                     \/ /\ f[i].created_at = f[j].created_at
                        /\ f[i].rowid < f[j].rowid}

\* (SELECT created_at FROM memories WHERE id = memory_id): NULL without a memory
created_at_of(memory_id) ==
    IF \E r \in db_memories : r.id = memory_id
    THEN (CHOOSE r \in db_memories : r.id = memory_id).created_at
    ELSE NULL

\* variant: rows with equal sort keys come out against the scan order
select_embeddings_ties_reversed ==
    {f \in Permutations_of(db_embeddings) :
        \A i, j \in 1..Len(f) :
            i < j => \/ created_at_of(f[i].memory_id) > created_at_of(f[j].memory_id)
                     \/ /\ created_at_of(f[i].memory_id) = created_at_of(f[j].memory_id)
                        /\ f[i].rowid > f[j].rowid}

\* SELECT embedding FROM embeddings ORDER BY (SELECT created_at ...) DESC,
\* rows with equal sort keys in scan order
select_embeddings_desc ==
    {f \in Permutations_of(db_embeddings) :
        \A i, j \in 1..Len(f) :
            i < j => \/ created_at_of(f[i].memory_id) > created_at_of(f[j].memory_id)
                     \/ /\ created_at_of(f[i].memory_id) = created_at_of(f[j].memory_id)
                        /\ f[i].rowid < f[j].rowid}

\* _load_memories_cache: the cache after the call, rows being the SELECT's result
load_memories_cache(rows) ==
    IF memories_cache # NoCache THEN memories_cache
    ELSE <<[i \in 1..Len(rows) |-> memory_dict(rows[i])]>>

\* _load_embeddings_cache: np.vstack of the rows, or np.array([]) without rows
load_embeddings_cache(rows) ==
    IF embeddings_cache # NoCache THEN embeddings_cache
    ELSE <<[i \in 1..Len(rows) |-> rows[i].embedding]>>

\* np.dot(vec1, vec2)
dot(vec1, vec2) ==
    LET n == IF Len(vec1) < Len(vec2) THEN Len(vec1) ELSE Len(vec2)
        sum[i \in 0..n] == IF i = 0 THEN 0 ELSE sum[i - 1] + vec1[i] * vec2[i]
    IN  sum[n]

\* MemoryEmbedder.cosine_similarity(vec1, vec2) = dot / (norm1 * norm2), 0.0 when
\* a norm is 0.  The value c is kept exactly, as the fraction <<p, q>> (q > 0)
\* of c * |c|, which orders as c does.
cosine_similarity(vec1, vec2) ==
    LET d == dot(vec1, vec2)
        n1 == dot(vec1, vec1)
        n2 == dot(vec2, vec2)
    IN  IF n1 = 0 \/ n2 = 0 THEN <<0, 1>>
        ELSE <<(IF d < 0 THEN -1 ELSE 1) * d * d, n1 * n2>>

\* a >= b for two such fractions
sim_geq(a, b) == a[1] * b[2] >= b[1] * a[2]

\* variant: the candidates are cut to top_k in index order, never sorted
find_similar_unsorted(query_embedding, candidate_embeddings, top_k) ==
    LET n == Len(candidate_embeddings)
        cut == IF top_k < n THEN top_k ELSE n
    IN  [k \in 1..cut |->
            <<k, cosine_similarity(query_embedding, candidate_embeddings[k])>>]

\* MemoryEmbedder.find_similar: (index, similarity) by similarity descending,
\* equal similarities in index order (list.sort is stable), cut to top_k
find_similar(query_embedding, candidate_embeddings, top_k) ==
    LET n == Len(candidate_embeddings)
        sim(i) == cosine_similarity(query_embedding, candidate_embeddings[i])
        before(i, j) == \/ ~ sim_geq(sim(j), sim(i))
                        \/ (sim_geq(sim(i), sim(j)) /\ sim_geq(sim(j), sim(i)) /\ i < j)
        order == CHOOSE f \in Permutations_of(1..n) :
                    \A a, b \in 1..n : a < b => before(f[a], f[b])
        cut == IF top_k < n THEN top_k ELSE n
    IN  [k \in 1..cut |-> <<order[k], sim(order[k])>>]

\* the loop of search over find_similar's pairs: keep those at or above
\* min_similarity, each as the cached memory with its similarity_score
RECURSIVE search_results(_, _, _)
search_results(pairs, cache, min_similarity) ==
    IF Len(pairs) = 0 THEN <<>>
    ELSE LET idx == pairs[1][1]
             similarity == pairs[1][2]
             rest == search_results(Tail(pairs), cache, min_similarity)
         IN  IF sim_geq(similarity, min_similarity)
             THEN <<[memory |-> cache[idx], similarity_score |-> similarity]>> \o rest
             ELSE rest

\* _invalidate_cache
invalidate_cache ==
    /\ memories_cache' = NoCache
    /\ embeddings_cache' = NoCache

\* variant: add_memory drops the caches before it asks for the embedding
embedding_failed_invalidates == invalidate_cache

\* add_memory when embed_text returned None: return False, nothing touched
embedding_failed == UNCHANGED <<memories_cache, embeddings_cache>>

\* variant: add_memory commits and keeps the caches
after_add_keeps_cache == UNCHANGED <<memories_cache, embeddings_cache>>

\* add_memory after conn.commit(): self._invalidate_cache()
after_add == invalidate_cache

Store_add_memory(content, metadata, memory_id, embedding) ==
    IF content_invalid(content)
    THEN /\ last' = [op |-> "Store.add_memory", had_cache |-> memories_cache # NoCache, ret |-> FALSE, log |-> "empty_content"]
         /\ UNCHANGED storeVars
    ELSE IF embedding = NoVector
    THEN /\ last' = [op |-> "Store.add_memory", had_cache |-> memories_cache # NoCache, ret |-> FALSE, log |-> "embedding_failed"]
         /\ UNCHANGED <<db_memories, db_embeddings>>
         /\ embedding_failed
    ELSE LET payload == Compressed[content]
             mid == IF memory_id = "" THEN store_generated_id(now) ELSE memory_id
         IN  IF \/ \E r \in db_memories : r.id = mid
                \/ \E e \in db_embeddings : e.memory_id = mid
             THEN \* sqlite3.IntegrityError: the connection rolls back
                  /\ last' = [op |-> "Store.add_memory", had_cache |-> memories_cache # NoCache, ret |-> FALSE,
                              log |-> "integrity_error"]
                  /\ UNCHANGED storeVars
             ELSE /\ db_memories' = db_memories \cup
                        {[rowid |-> next_rowid(db_memories), id |-> mid,
                          content |-> payload[1],
                          metadata |-> json_dumps(metadata), created_at |-> now,
                          compressed |-> payload[2]]}
                  /\ db_embeddings' = db_embeddings \cup
                        {[rowid |-> next_rowid(db_embeddings), memory_id |-> mid,
                          embedding |-> embedding]}
                  /\ after_add
                  /\ last' = [op |-> "Store.add_memory", had_cache |-> memories_cache # NoCache, ret |-> TRUE, log |-> "added"]

StoreAddMemory ==
    \E req \in Requests, memory_id \in MemoryIds, embedding \in Vectors \cup {NoVector} :
        /\ Step
        /\ Store_add_memory(req[1], req[2], memory_id, embedding)
        /\ UNCHANGED <<now, rng, fixedVars, utilVars>>

\* variant: search embeds the query before it looks at the memories
search_embed_calls_always(mc) == 1

\* embed_text calls made by search: none when the store is empty
search_embed_calls(mc) == IF Len(mc[1]) = 0 THEN 0 ELSE 1

Store_search(top_k, min_similarity, query_embedding, mrows, erows) ==
    LET mc == load_memories_cache(mrows)
        ec == load_embeddings_cache(erows)
    IN  /\ memories_cache' = mc
        /\ embeddings_cache' = ec
        /\ UNCHANGED <<db_memories, db_embeddings>>
        /\ IF Len(mc[1]) = 0
           THEN last' = [op |-> "Store.search", had_cache |-> memories_cache # NoCache,
                         embed_calls |-> search_embed_calls(mc), ret |-> <<>>, log |-> "empty_store"]
           ELSE IF query_embedding = NoVector
           THEN last' = [op |-> "Store.search", had_cache |-> memories_cache # NoCache,
                         embed_calls |-> search_embed_calls(mc), ret |-> <<>>, log |-> "embedding_failed"]
           ELSE LET pairs == find_similar(query_embedding, ec[1], top_k)
                IN  IF \E k \in 1..Len(pairs) : pairs[k][1] > Len(mc[1])
                    THEN last' = [op |-> "Store.search", had_cache |-> memories_cache # NoCache,
                         embed_calls |-> search_embed_calls(mc), ret |-> <<>>,
                                  log |-> "IndexError"]
                    ELSE last' = [op |-> "Store.search", had_cache |-> memories_cache # NoCache,
                         embed_calls |-> search_embed_calls(mc),
                                  ret |-> search_results(pairs, mc[1], min_similarity),
                                  log |-> "results"]

StoreSearch ==
    \E sr \in SearchRequests, query_embedding \in Vectors \cup {NoVector},
       mrows \in select_memories_desc, erows \in select_embeddings_desc :
        /\ Step
        /\ Store_search(sr[1], sr[2], query_embedding, mrows, erows)
        /\ UNCHANGED <<now, rng, fixedVars, utilVars>>

\* get_by_id(memory_id): Optional[Dict]
get_by_id(memory_id) ==
    LET rows == {r \in db_memories : r.id = memory_id}
    IN  IF rows = {} THEN <<>> ELSE <<memory_dict(CHOOSE r \in rows : TRUE)>>

Store_get_all(limit, mrows) ==
    LET mc == load_memories_cache(mrows)
    IN  /\ memories_cache' = mc
        /\ UNCHANGED <<db_memories, db_embeddings, embeddings_cache>>
        /\ last' = [op |-> "Store.get_all", had_cache |-> memories_cache # NoCache,
                     ret |-> IF limit # 0 /\ limit < Len(mc[1])
                             THEN SubSeq(mc[1], 1, limit) ELSE mc[1],
                     log |-> "none"]

StoreGetAll ==
    \E limit \in Limits, mrows \in select_memories_desc :
        /\ Step
        /\ Store_get_all(limit, mrows)
        /\ UNCHANGED <<now, rng, fixedVars, utilVars>>

\* delete_by_id after conn.commit(): self._invalidate_cache()
after_delete == invalidate_cache

Store_delete_by_id(memory_id) ==
    IF ~ \E r \in db_memories : r.id = memory_id
    THEN /\ last' = [op |-> "Store.delete_by_id", had_cache |-> memories_cache # NoCache, ret |-> FALSE, log |-> "not_found"]
         /\ UNCHANGED storeVars
    ELSE /\ db_embeddings' = {e \in db_embeddings : e.memory_id # memory_id}
         /\ db_memories' = {r \in db_memories : r.id # memory_id}
         /\ after_delete
         /\ last' = [op |-> "Store.delete_by_id", had_cache |-> memories_cache # NoCache, ret |-> TRUE, log |-> "deleted"]

StoreDeleteById ==
    \E memory_id \in (MemoryIds \ {""}) \cup {r.id : r \in db_memories} :
        /\ Step
        /\ Store_delete_by_id(memory_id)
        /\ UNCHANGED <<now, rng, fixedVars, utilVars>>

\* np.zeros(self.dimension, dtype=np.float32)
zero_embedding == [i \in 1..dimension |-> 0]

\* variant: the vector is written as returned, with no placeholder for None
rebuilt_embedding_as_returned(embedding) == embedding

\* the vector rebuild_index writes for one memory: the new embedding, or the
\* zero vector when embed_text returned None
rebuilt_embedding(embedding) ==
    IF embedding # NoVector THEN embedding ELSE zero_embedding

\* rebuild_index; embedded[id] is what embed_text returns for memory id
Store_rebuild_index(embedded) ==
    IF db_memories = {}
    THEN /\ last' = [op |-> "Store.rebuild_index", had_cache |-> memories_cache # NoCache, ret |-> FALSE, log |-> "no_memories"]
         /\ UNCHANGED storeVars
    ELSE /\ db_embeddings' =
              {IF \E r \in db_memories : r.id = e.memory_id
               THEN [e EXCEPT !.embedding = rebuilt_embedding(embedded[e.memory_id])]
               ELSE e : e \in db_embeddings}
         /\ UNCHANGED db_memories
         /\ invalidate_cache
         /\ last' = [op |-> "Store.rebuild_index", had_cache |-> memories_cache # NoCache, ret |-> FALSE, log |-> "rebuilt"]

StoreRebuildIndex ==
    \E embedded \in [{r.id : r \in db_memories} -> Vectors \cup {NoVector}] :
        /\ Step
        /\ Store_rebuild_index(embedded)
        /\ UNCHANGED <<now, rng, fixedVars, utilVars>>


\* no content is passing through the codec
NoContent == [content |-> <<>>, compressed |-> <<>>, decompressed |-> <<>>]

\* the threads (or processes) that may be inside a store call at the same time
Workers == {1, 2}

\* a thread that is not inside a call
idle_worker == [pc |-> "idle"]

\* a new process on a new database file
InitProcess ==
    /\ now = 0
    /\ steps = 0
    /\ rng = 0
    /\ last = [op |-> "init", ret |-> FALSE, log |-> "none"]
    /\ InitFixed
    /\ InitStore
    /\ workers = [w \in Workers |-> idle_worker]

\* CircuitBreakerState
CLOSED == "closed"
OPEN == "open"
HALF_OPEN == "half_open"

\* CircuitBreaker.__init__; consecutive_failures and recovery_successes are
\* history: the failures recorded since the last recorded success, and the
\* successes recorded since the breaker last became half-open
new_breaker(failure_threshold, recovery_timeout, success_threshold) ==
    [failure_threshold |-> failure_threshold,
     recovery_timeout |-> recovery_timeout,
     success_threshold |-> success_threshold,
     state |-> CLOSED, failure_count |-> 0, success_count |-> 0,
     last_failure_time |-> NULL,
     consecutive_failures |-> 0, recovery_successes |-> 0]

\* the token buckets hold real numbers; the model counts them in units of
\* 1/TokenUnit token, which makes every refill over a multiple of 30 seconds
\* a whole number of units
TokenUnit == 120

\* the threads that call acquire
Threads == {1, 2, 3}

\* RateLimiter.__init__ at time t; lock is the thread holding self.lock (NULL
\* when free); granted is history: the tokens handed out by calls that
\* returned True, calls the acquire calls started
new_limiter(requests_per_minute, requests_per_hour, t) ==
    [requests_per_minute |-> requests_per_minute,
     requests_per_hour |-> requests_per_hour,
     minute_tokens |-> requests_per_minute * TokenUnit,
     hour_tokens |-> requests_per_hour * TokenUnit,
     last_minute_refill |-> t, last_hour_refill |-> t,
     lock |-> NULL, granted |-> 0, calls |-> 0]

\* a thread that is not inside acquire
idle_caller == [pc |-> "idle", tokens |-> 0, minute_seen |-> 0, hour_seen |-> 0]

\* ExponentialBackoff.__init__ and the start of retry(func).  Delays are in
\* tenths of a second.  invoked is history: what each invocation of func did,
\* <<"returned", k>> or <<"raised", k>> for the k-th one; slept is history:
\* the arguments of the time.sleep calls; outcome is what retry itself
\* returned or raised
new_backoff(max_retries, initial_delay, max_delay, backoff_factor) ==
    [max_retries |-> max_retries, initial_delay |-> initial_delay,
     max_delay |-> max_delay, backoff_factor |-> backoff_factor,
     attempt |-> 0, pc |-> "call", last_exception |-> <<>>,
     invoked |-> <<>>, slept |-> <<>>, outcome |-> <<>>]

\* the objects of the api helpers as their constructors' defaults leave them
InitApi ==
    /\ breaker = new_breaker(5, 60, 2)
    /\ limiter = new_limiter(60, 1000, 0)
    /\ callers = [t \in Threads |-> idle_caller]
    /\ backoff = new_backoff(3, 10, 600, 2)

Init ==
    /\ InitProcess
    /\ codec = NoContent
    /\ InitApi

NextFixed ==
    \/ AddMemory
    \/ UpdateMemory
    \/ SoftDeleteMemory
    \/ PurgeDeleted
    \/ Tick

SpecFixed == Init /\ [][NextFixed]_vars

NextStore ==
    \/ StoreAddMemory
    \/ StoreSearch
    \/ StoreGetAll
    \/ StoreDeleteById
    \/ StoreRebuildIndex
    \/ Tick

SpecStore == Init /\ [][NextStore]_vars


(***************************************************************************)
(* A process that dies inside a call.  One database file holds one of the  *)
(* two stores (both create a table named memories, with different          *)
(* columns), so a behaviour of SpecCrash uses one class throughout.  The   *)
(* process is interrupted between two statements of a transaction; SQLite  *)
(* rolls the open transaction back, and the restarted process has a new    *)
(* MemoryStore whose caches are not loaded.                                *)
(***************************************************************************)
\* variant: the connection runs in autocommit mode, each statement is durable
rollback_keeps_writes(committed, uncommitted) == uncommitted

\* the table after a transaction that never reached conn.commit():
\* committed is the table at BEGIN TRANSACTION, uncommitted the table as the
\* statements executed so far left it
rollback(committed, uncommitted) == committed

\* add_memory dies after INSERT INTO memories, before INSERT INTO embeddings
Fixed_add_memory_interrupted(uid, content, metadata, memory_id) ==
    LET payload == Compressed[content]
        mid == IF memory_id = "" THEN generated_id(uid, now) ELSE memory_id
        row == [id |-> mid, uid |-> uid, content |-> payload[1],
                metadata |-> json_dumps(metadata), created_at |-> now,
                updated_at |-> now, deleted_at |-> NULL,
                compressed |-> payload[2], version |-> 1]
    IN  /\ ~ content_invalid(content)
        /\ ~ uid_invalid(uid)
        /\ ~ memories_pk_conflict(mid, uid)
        /\ users' = ensure_user_exists(uid)
        /\ rng' = rng + 1
        /\ memories' = rollback(memories, memories \cup {row})
        /\ last' = [op |-> "Fixed.interrupted", ret |-> FALSE, log |-> "add_memory"]
        /\ UNCHANGED <<embeddings, audit_log, updates, written>>

FixedAddMemoryInterrupted ==
    \E uid \in Uids, req \in Requests, memory_id \in MemoryIds :
        /\ Step
        /\ Fixed_add_memory_interrupted(uid, req[1], req[2], memory_id)
        /\ UNCHANGED <<now, storeVars, utilVars>>

\* update_memory dies after UPDATE memories, before UPDATE embeddings
Fixed_update_memory_interrupted(uid, memory_id, content, metadata) ==
    LET payload == Compressed[content]
    IN  /\ ~ content_invalid(content)
        /\ active_rows(uid, memory_id) # {}
        /\ users' = ensure_user_exists(uid)
        /\ rng' = rng + 1
        /\ memories' =
             rollback(memories,
                      (memories \ active_rows(uid, memory_id)) \cup
                      {[r EXCEPT !.content = payload[1],
                                 !.metadata = json_dumps(metadata),
                                 !.updated_at = now,
                                 !.compressed = payload[2],
                                 !.version = new_version(r)] :
                       r \in active_rows(uid, memory_id)})
        /\ last' = [op |-> "Fixed.interrupted", ret |-> FALSE, log |-> "update_memory"]
        /\ UNCHANGED <<embeddings, audit_log, updates, written>>

FixedUpdateMemoryInterrupted ==
    \E uid \in Uids, memory_id \in KnownIds, req \in Requests :
        /\ Step
        /\ Fixed_update_memory_interrupted(uid, memory_id, req[1], req[2])
        /\ UNCHANGED <<now, storeVars, utilVars>>

\* MemoryStore.add_memory dies after INSERT INTO memories, before INSERT INTO embeddings
Store_add_memory_interrupted(content, metadata, memory_id) ==
    LET payload == Compressed[content]
        mid == IF memory_id = "" THEN store_generated_id(now) ELSE memory_id
    IN  /\ ~ content_invalid(content)
        /\ ~ \E r \in db_memories : r.id = mid
        /\ db_memories' =
             rollback(db_memories,
                      db_memories \cup
                      {[rowid |-> next_rowid(db_memories), id |-> mid,
                        content |-> payload[1],
                        metadata |-> json_dumps(metadata), created_at |-> now,
                        compressed |-> payload[2]]})
        /\ UNCHANGED db_embeddings
        /\ memories_cache' = NoCache
        /\ embeddings_cache' = NoCache
        /\ last' = [op |-> "Store.interrupted", ret |-> FALSE, log |-> "add_memory"]

StoreAddMemoryInterrupted ==
    \E req \in Requests, memory_id \in MemoryIds :
        /\ Step
        /\ Store_add_memory_interrupted(req[1], req[2], memory_id)
        /\ UNCHANGED <<now, rng, fixedVars, utilVars>>

\* delete_by_id dies after DELETE FROM embeddings, before DELETE FROM memories
Store_delete_by_id_interrupted(memory_id) ==
    /\ \E r \in db_memories : r.id = memory_id
    /\ db_embeddings' =
         rollback(db_embeddings, {e \in db_embeddings : e.memory_id # memory_id})
    /\ UNCHANGED db_memories
    /\ memories_cache' = NoCache
    /\ embeddings_cache' = NoCache
    /\ last' = [op |-> "Store.interrupted", ret |-> FALSE, log |-> "delete_by_id"]

StoreDeleteByIdInterrupted ==
    \E memory_id \in {r.id : r \in db_memories} :
        /\ Step
        /\ Store_delete_by_id_interrupted(memory_id)
        /\ UNCHANGED <<now, rng, fixedVars, utilVars>>

\* rebuild_index dies inside its loop, the embeddings of the memories in done
\* rewritten (embed_text returned embedded[id] for them) and the others not yet
Store_rebuild_index_interrupted(embedded, done) ==
    /\ db_memories # {}
    /\ db_embeddings' =
         rollback(db_embeddings,
                  {IF e.memory_id \in done
                   THEN [e EXCEPT !.embedding = rebuilt_embedding(embedded[e.memory_id])]
                   ELSE e : e \in db_embeddings})
    /\ UNCHANGED db_memories
    /\ memories_cache' = NoCache
    /\ embeddings_cache' = NoCache
    /\ last' = [op |-> "Store.interrupted", ret |-> FALSE, log |-> "rebuild_index"]

StoreRebuildIndexInterrupted ==
    \E done \in SUBSET {r.id : r \in db_memories} :
      \E embedded \in [done -> Vectors \cup {NoVector}] :
        /\ Step
        /\ Store_rebuild_index_interrupted(embedded, done)
        /\ UNCHANGED <<now, rng, fixedVars, utilVars>>

\* the class the database file belongs to, fixed by the first call made on it
UsesFixed ==
    last.op \in {"init", "add_memory", "update_memory", "soft_delete_memory",
                 "purge_deleted", "Fixed.interrupted"}

UsesStore == last.op = "init" \/ ~ UsesFixed

NextCrash ==
    \/ UsesFixed /\ NextFixed
    \/ UsesFixed /\ FixedAddMemoryInterrupted
    \/ UsesFixed /\ FixedUpdateMemoryInterrupted
    \/ UsesStore /\ NextStore
    \/ UsesStore /\ StoreAddMemoryInterrupted
    \/ UsesStore /\ StoreDeleteByIdInterrupted
    \/ UsesStore /\ StoreRebuildIndexInterrupted

SpecCrash == Init /\ [][NextCrash]_vars


(***************************************************************************)
(* The codec on its own: _compress_content applied to a content string,    *)
(* then _decompress_content applied to the pair it returned.  The strings  *)
(* offered have UTF-8 lengths just around the threshold and near zero, are *)
(* built of one-byte and two-byte characters, in runs and alternating.     *)
(***************************************************************************)
CodecSpan == 3      \* UTF-8 lengths offered: up to CodecSpan from 0 and from the threshold

LATIN_A == 65       \* "A", one byte in UTF-8
LATIN_B == 66       \* "B"
E_ACUTE == 233      \* U+00E9, two bytes in UTF-8

CodecShapes == {"narrow_first", "wide_first", "alternating"}

\* a string of a one-byte characters and w two-byte characters
codec_content(a, w, shape) ==
    [i \in 1..(a + w) |->
        CASE shape = "narrow_first" -> IF i <= a THEN LATIN_A ELSE E_ACUTE
          [] shape = "wide_first"   -> IF i <= w THEN E_ACUTE ELSE LATIN_A
          [] shape = "alternating"  -> IF i > a THEN E_ACUTE
                                       ELSE IF i % 2 = 1 THEN LATIN_A ELSE LATIN_B]

CodecLengths ==
    (0..CodecSpan) \cup
    ((COMPRESSION_THRESHOLD - CodecSpan)..(COMPRESSION_THRESHOLD + CodecSpan))

CodecWideCounts ==
    (0..2) \cup ((COMPRESSION_THRESHOLD \div 2 - 2)..(COMPRESSION_THRESHOLD \div 2))

CodecInputs ==
    {codec_content(n - 2 * w, w, shape) :
        <<n, w, shape>> \in {t \in CodecLengths \X CodecWideCounts \X CodecShapes :
                                t[1] - 2 * t[2] >= 0}}

InitCodec ==
    /\ InitProcess
    /\ \E content \in CodecInputs :
          codec = [content |-> content, compressed |-> <<>>, decompressed |-> <<>>]
    /\ InitApi

\* compressed_content, is_compressed = self._compress_content(content)
CompressContent ==
    /\ codec.compressed = <<>>
    /\ codec' = [codec EXCEPT !.compressed = <<compress_content(codec.content)>>]
    /\ UNCHANGED <<now, steps, rng, last, fixedVars, storeVars, apiVars, raceVars>>

\* content = self._decompress_content(content, compressed)
DecompressContent ==
    /\ codec.compressed # <<>>
    /\ codec.decompressed = <<>>
    /\ codec' = [codec EXCEPT !.decompressed =
                    <<decompress_content(codec.compressed[1][1], codec.compressed[1][2])>>]
    /\ UNCHANGED <<now, steps, rng, last, fixedVars, storeVars, apiVars, raceVars>>

NextCodec ==
    \/ CompressContent
    \/ DecompressContent

SpecCodec == InitCodec /\ [][NextCodec]_vars


(***************************************************************************)
(* Properties of MemoryStoreFixed, checked under SpecFixed.                *)
(***************************************************************************)
DEFAULT_LIMIT == 100

\* C1: multi-tenant isolation. Whatever calls were made, every dict that
\* get_memory(uid, id) or get_user_memories(uid) returns is a row owned by uid
\* (with that id), and the list never holds more entries than uid owns rows;
\* in particular the row another user stored under the same id is not returned.
C1_Isolation ==
    \A uid \in Uids :
        /\ \A id \in KnownIds :
             \A i \in 1..Len(get_memory(uid, id)) :
                \E r \in memories : /\ r.uid = uid /\ r.id = id
                                    /\ row_dict(r) = get_memory(uid, id)[i]
        /\ \A lst \in get_user_memories(uid, DEFAULT_LIMIT, 0) :
             /\ Len(lst) <= Cardinality({r \in memories : r.uid = uid})
             /\ \A i \in 1..Len(lst) :
                  \E r \in memories : r.uid = uid /\ row_dict(r) = lst[i]

\* C1 witness: u1 and u2 both hold an active memory under the same id, with
\* different content, and u2 holds nothing else
C1_Witness ==
    \E r1, r2 \in memories :
        /\ r1.uid = "u1" /\ r2.uid = "u2" /\ r1.id = r2.id
        /\ r1.content # r2.content
        /\ r1.deleted_at = NULL /\ r2.deleted_at = NULL
        /\ get_memory("u2", r2.id) = <<row_dict(r2)>>

\* C2: version monotonicity. The version of every row is 1 plus the number of
\* update_memory calls on its (id, uid) that returned True since its add: 1
\* right after the add, unchanged by soft_delete_memory and by failed calls.
C2_Version ==
    /\ DOMAIN updates = {<<r.id, r.uid>> : r \in memories}
    /\ \A r \in memories : r.version = 1 + updates[<<r.id, r.uid>>]

\* C2 witness: a row updated twice and then soft-deleted, at version 3
C2_Witness ==
    \E r \in memories :
        /\ r.version = 3 /\ updates[<<r.id, r.uid>>] = 2
        /\ r.deleted_at # NULL
        /\ last.op = "soft_delete_memory" /\ last.ret = TRUE

\* a soft-deleted row is invisible to get_memory and get_user_memories
SoftDeletedInvisible ==
    \A r \in memories :
        r.deleted_at # NULL =>
            /\ get_memory(r.uid, r.id) = <<>>
            /\ \A lst \in get_user_memories(r.uid, DEFAULT_LIMIT, 0) :
                 \A i \in 1..Len(lst) : lst[i].id # r.id

\* soft_delete_memory(uid, id) returning True leaves the row (id, uid) in the
\* table, marked deleted
SoftDeleteMarks ==
    \A uid \in Uids, id \in KnownIds :
        (/\ last'.op = "soft_delete_memory" /\ last'.ret = TRUE
         /\ now' = now
         /\ Fixed_soft_delete_memory(uid, id, TRUE))
        => \E r \in memories' : r.id = id /\ r.uid = uid /\ r.deleted_at # NULL

\* a soft-deleted row stays in the table, still soft-deleted, unless a
\* purge_deleted call removes rows
SoftDeletedStays ==
    \A r \in memories :
        r.deleted_at # NULL =>
            \/ \E r2 \in memories' :
                 r2.id = r.id /\ r2.uid = r.uid /\ r2.deleted_at # NULL
            \/ (last'.op = "purge_deleted" /\ last'.ret > 0)

\* C3: soft-delete exclusion. Once soft_delete_memory(uid, id) has returned
\* True the row is marked deleted; from then on get_memory(uid, id) is None and
\* get_user_memories(uid) omits the id, and the row stays in the memories table
\* until a purge removes it.
C3_SoftDeleteExclusion ==
    /\ []SoftDeletedInvisible
    /\ [][SoftDeleteMarks /\ SoftDeletedStays]_vars

\* C3 witness: soft_delete_memory has just returned True for u1's m1, which
\* is still a row of the table
C3_Witness ==
    /\ last.op = "soft_delete_memory" /\ last.ret = TRUE
    /\ \E r \in memories : r.id = "m1" /\ r.uid = "u1" /\ r.deleted_at # NULL
    /\ get_memory("u1", "m1") = <<>>

\* C4: reads return decompressed content. For every active row, get_memory and
\* get_user_memories return the content string that the last successful
\* add_memory / update_memory of that row was given.
C4_ReadsDecompressed ==
    \A r \in memories :
        r.deleted_at = NULL =>
            /\ \A i \in 1..Len(get_memory(r.uid, r.id)) :
                 get_memory(r.uid, r.id)[i].content = written[<<r.id, r.uid>>]
            /\ \A lst \in get_user_memories(r.uid, DEFAULT_LIMIT, 0) :
                 \A i \in 1..Len(lst) :
                    lst[i].id = r.id => lst[i].content = written[<<r.id, r.uid>>]

\* the id add_memory uses for the row
effective_id(uid, memory_id) ==
    IF memory_id = "" THEN generated_id(uid, now) ELSE memory_id

\* at most one memory row per (id, uid)
UniqueKey ==
    \A r1, r2 \in memories : (r1.id = r2.id /\ r1.uid = r2.uid) => r1 = r2

\* add_memory on an (id, uid) that has a row, active or soft-deleted, returns
\* False and changes neither table: a step that returns otherwise or changes a
\* table is not such a call
DuplicateAddFails ==
    (last'.op = "add_memory" /\ now' = now)
    => \/ /\ last'.ret = FALSE
          /\ memories' = memories
          /\ embeddings' = embeddings
       \/ ~ \E uid \in Uids, memory_id \in MemoryIds, req \in Requests :
               /\ \E r \in memories :
                      r.id = effective_id(uid, memory_id) /\ r.uid = uid
               /\ Fixed_add_memory(uid, req[1], req[2], memory_id, TRUE)

\* C7: key uniqueness. At most one memory row per (id, uid) exists, and an
\* add_memory whose (id, uid) already has a row, active or soft-deleted,
\* returns False and leaves the row and its embedding unchanged.
C7_KeyUniqueness ==
    /\ []UniqueKey
    /\ [][DuplicateAddFails]_vars

\* C7 witness: an add_memory has just failed on the primary key while the only
\* row of the table is soft-deleted
C7_Witness ==
    /\ last.op = "add_memory" /\ last.ret = FALSE /\ last.log = "integrity_error"
    /\ Cardinality(memories) = 1
    /\ \E r \in memories : r.deleted_at # NULL

\* update_memory on an (id, uid) without an active row returns False and
\* leaves the memories table as it was: a step that returns otherwise or
\* changes the table is not such a call
UpdateMissingFails ==
    (last'.op = "update_memory" /\ now' = now)
    => \/ /\ last'.ret = FALSE
          /\ memories' = memories
       \/ ~ \E uid \in Uids, memory_id \in KnownIds, req \in Requests :
               /\ ~ \E r \in memories :
                      r.id = memory_id /\ r.uid = uid /\ r.deleted_at = NULL
               /\ Fixed_update_memory(uid, memory_id, req[1], req[2], TRUE)

\* C8: update_memory(uid, id, content) returns False when no row (id, uid)
\* exists, when the id exists only under another uid and when the row is
\* soft-deleted, and then no memory row changes.
C8_UpdateRejected == [][UpdateMissingFails]_vars

\* C8 witness: an update_memory has just reported "not found" while the table
\* holds a soft-deleted row and nothing else
C8_Witness ==
    /\ last.op = "update_memory" /\ last.ret = FALSE /\ last.log = "not_found"
    /\ Cardinality(memories) = 1
    /\ \E r \in memories : r.deleted_at # NULL /\ r.version = 1

\* soft_delete_memory on a row that is already soft-deleted returns False and
\* leaves the row as it was
SoftDeleteTwiceFails ==
    \A uid \in Uids, memory_id \in KnownIds :
        (/\ last'.op = "soft_delete_memory"
         /\ now' = now
         /\ \E r \in memories :
                r.id = memory_id /\ r.uid = uid /\ r.deleted_at # NULL
         /\ Fixed_soft_delete_memory(uid, memory_id, TRUE))
        => /\ last'.ret = FALSE
           /\ memories' = memories

\* C9: soft_delete_memory sets deleted_at only on a row that exists, belongs to
\* uid and is not already deleted; on an already soft-deleted row it returns
\* False and leaves deleted_at unchanged.
C9_SoftDeleteOnce == [][SoftDeleteTwiceFails]_vars

\* the rows purge_deleted(uid, days_old) is to remove: soft-deleted rows of uid
\* whose deleted_at is older than now - days_old
Expired(uid, days_old) ==
    {r \in memories :
        r.uid = uid /\ r.deleted_at # NULL /\ r.deleted_at < now - days_old}

\* purge_deleted removes exactly the expired rows of uid with their embedding
\* rows and returns their number
PurgeRemovesExpired ==
    \A uid \in Uids, days_old \in DaysOld :
        (/\ last'.op = "purge_deleted"
         /\ now' = now
         /\ Fixed_purge_deleted(uid, days_old, TRUE))
        => /\ memories' = memories \ Expired(uid, days_old)
           /\ embeddings' =
                {e \in embeddings :
                    ~ \E r \in Expired(uid, days_old) :
                        r.id = e.memory_id /\ r.uid = e.uid}
           /\ last'.ret = Cardinality(Expired(uid, days_old))

\* C10: purge_deleted(uid, days_old) removes every memory row of uid whose
\* deleted_at is older than the cutoff together with its embedding row, removes
\* nothing else, and returns the number of memory rows removed.
C10_Purge == [][PurgeRemovesExpired]_vars


(***************************************************************************)
(* Properties of MemoryStore, checked under SpecStore.                     *)
(***************************************************************************)
\* add_memory with an embedder that returns None returns False and leaves the
\* two tables and the two caches as they were: a step that returns otherwise
\* or changes one of them is not such a call
EmbedderFailureChangesNothing ==
    (last'.op = "Store.add_memory" /\ now' = now)
    => \/ /\ last'.ret = FALSE
          /\ db_memories' = db_memories
          /\ db_embeddings' = db_embeddings
          /\ memories_cache' = memories_cache
          /\ embeddings_cache' = embeddings_cache
       \/ ~ \E req \in Requests, memory_id \in MemoryIds :
               Store_add_memory(req[1], req[2], memory_id, NoVector)

\* C5: atomicity under embedder failure. If the embedder returns None during
\* MemoryStore.add_memory, the call returns False and the memories table, the
\* embeddings table and both caches are exactly as before the call.
C5_EmbedderFailureAtomic == [][EmbedderFailureChangesNothing]_vars

\* C5 witness: add_memory has just failed on the embedder, with a memory
\* stored and both caches loaded before the call and still loaded
C5_Witness ==
    /\ last.op = "Store.add_memory" /\ last.log = "embedding_failed"
    /\ last.had_cache
    /\ db_memories # {}
    /\ memories_cache # NoCache /\ embeddings_cache # NoCache

\* a loaded cache holds what a load from the current tables gives
CacheFresh ==
    /\ memories_cache # NoCache =>
         \E rows \in select_memories_desc :
            memories_cache[1] = [i \in 1..Len(rows) |-> memory_dict(rows[i])]
    /\ embeddings_cache # NoCache =>
         \E rows \in select_embeddings_desc :
            embeddings_cache[1] = [i \in 1..Len(rows) |-> rows[i].embedding]

\* a call that changes a table leaves both caches discarded
MutationInvalidates ==
    (db_memories' # db_memories \/ db_embeddings' # db_embeddings)
    => (memories_cache' = NoCache /\ embeddings_cache' = NoCache)

\* C6: cache consistency for calls made one after another. Every add_memory,
\* delete_by_id or rebuild_index that changed the database leaves both caches
\* discarded, so a loaded cache always equals a load from the current
\* database and the next get_all or search reads the state after the mutation.
C6_CacheConsistency ==
    /\ []CacheFresh
    /\ [][MutationInvalidates]_vars

\* C6 witness: add_memory has just stored a second memory; it found the cache
\* loaded and left both caches discarded
C6_Witness ==
    /\ last.op = "Store.add_memory" /\ last.ret = TRUE /\ last.had_cache
    /\ Cardinality(db_memories) = 2
    /\ memories_cache = NoCache /\ embeddings_cache = NoCache


(***************************************************************************)
(* Properties of both stores, checked under SpecCrash.                     *)
(***************************************************************************)
\* C11: memory/embedding pairing. In every state reached by add, update,
\* soft-delete, delete, purge and rebuild_index calls on either store, a state
\* left by a failed call or by a call that died partway included, every memory
\* row that is not soft-deleted has exactly one embeddings row with its key.
C11_Pairing ==
    /\ \A r \in memories :
          r.deleted_at = NULL =>
             Cardinality({e \in embeddings :
                             e.memory_id = r.id /\ e.uid = r.uid}) = 1
    /\ \A r \in db_memories :
          Cardinality({e \in db_embeddings : e.memory_id = r.id}) = 1

\* C11 witness: delete_by_id has died between its two DELETEs while the store
\* holds two memories
C11_Witness ==
    /\ last.op = "Store.interrupted" /\ last.log = "delete_by_id"
    /\ Cardinality(db_memories) = 2


(***************************************************************************)
(* Properties of the codec, checked under SpecCodec.                       *)
(***************************************************************************)
\* C12: codec round trip. The flag _compress_content returns is True exactly
\* when the UTF-8 encoding of the content is longer than 1024 bytes; with the
\* flag False the payload is the content itself; and _decompress_content
\* applied to the returned pair gives back the content.
C12_CodecRoundTrip ==
    /\ codec.compressed # <<>> =>
          LET payload == codec.compressed[1][1]
              flag == codec.compressed[1][2]
          IN  /\ flag = (Len(utf8_encode(codec.content)) > COMPRESSION_THRESHOLD)
              /\ ~ flag => payload = codec.content
    /\ codec.decompressed # <<>> => codec.decompressed[1] = codec.content

\* C12 witness: a string of fewer than 1024 characters whose UTF-8 encoding is
\* longer than 1024 bytes has been compressed and decompressed
C12_Witness ==
    /\ Len(codec.content) < COMPRESSION_THRESHOLD
    /\ codec.compressed # <<>>
    /\ codec.compressed[1][2] = TRUE
    /\ codec.decompressed # <<>>


(***************************************************************************)
(* Properties of MemoryStore.search, checked under SpecStore.              *)
(***************************************************************************)
\* what search(query, top_k, min_similarity) has to return on the current
\* tables when the query embeds to query_embedding
SearchCorrect(top_k, min_similarity, query_embedding, ret) ==
    LET ids == {r.id : r \in db_memories}
        sim_of(id) ==
            cosine_similarity(query_embedding,
                              (CHOOSE e \in db_embeddings : e.memory_id = id).embedding)
        returned == {ret[k].memory.id : k \in 1..Len(ret)}
        more_similar(id) == {o \in ids \ {id} : ~ sim_geq(sim_of(id), sim_of(o))}
        as_similar(id) == {o \in ids \ {id} : sim_geq(sim_of(o), sim_of(id))}
    IN  /\ Len(ret) <= top_k
        /\ Cardinality(returned) = Len(ret)
        /\ \A k, l \in 1..Len(ret) :
              k < l => sim_geq(ret[k].similarity_score, ret[l].similarity_score)
        /\ \A k \in 1..Len(ret) :
              /\ \E r \in db_memories : ret[k].memory = memory_dict(r)
              /\ ret[k].similarity_score = sim_of(ret[k].memory.id)
              /\ sim_geq(ret[k].similarity_score, min_similarity)
        /\ \A id \in returned : Cardinality(more_similar(id)) < top_k
        /\ \A id \in ids \ returned :
              \/ ~ sim_geq(sim_of(id), min_similarity)
              \/ Cardinality(as_similar(id)) >= top_k

SearchReturnsTopK ==
    (last'.op = "Store.search" /\ last'.log = "results" /\ now' = now)
    => \A sr \in SearchRequests, query_embedding \in Vectors,
          mrows \in select_memories_desc, erows \in select_embeddings_desc :
            Store_search(sr[1], sr[2], query_embedding, mrows, erows)
            => SearchCorrect(sr[1], sr[2], query_embedding, last'.ret)

SearchBestEffort ==
    (last'.op = "Store.search" /\ now' = now)
    => \A sr \in SearchRequests, mrows \in select_memories_desc,
          erows \in select_embeddings_desc :
            /\ \A query_embedding \in Vectors \cup {NoVector} :
                  (/\ db_memories = {}
                   /\ Store_search(sr[1], sr[2], query_embedding, mrows, erows))
                  => (last'.ret = <<>> /\ last'.embed_calls = 0)
            /\ Store_search(sr[1], sr[2], NoVector, mrows, erows)
               => /\ last'.ret = <<>>
                  /\ last'.log \in {"empty_store", "embedding_failed"}
                  /\ db_memories' = db_memories
                  /\ db_embeddings' = db_embeddings

\* C14: search is best-effort. On a store with no memories it returns an empty
\* list without invoking the embedder; when the embedder returns None for the
\* query it returns an empty list, raises nothing and leaves the store unchanged.
C14_SearchBestEffort == [][SearchBestEffort]_vars

\* C14 witness: a search on a store that holds a memory has just returned []
\* because the embedder gave None for the query
C14_Witness ==
    /\ last.op = "Store.search" /\ last.log = "embedding_failed"
    /\ last.ret = <<>> /\ last.embed_calls = 1
    /\ db_memories # {}


(***************************************************************************)
(* Further properties of MemoryStoreFixed, checked under SpecFixed.        *)
(***************************************************************************)
\* an add_memory that failed its validation (empty content, empty uid)
ValidationFailed(call) ==
    call.op = "add_memory" /\ call.log \in {"empty_content", "uid_required"}

\* an add_memory that failed on an (id, uid) already stored
DuplicateFailed(call) ==
    call.op = "add_memory" /\ call.log = "integrity_error"

\* a call rejected as a duplicate and a call rejected by the validation, made
\* one after the other, give their callers different outcomes
DuplicateOutcomeDiffers ==
    /\ (ValidationFailed(last) /\ DuplicateFailed(last')) => last'.ret # last.ret
    /\ (DuplicateFailed(last) /\ ValidationFailed(last')) => last'.ret # last.ret

\* C15: add_memory reports a duplicate (id, uid) as a distinct failure: what
\* the caller receives for an (id, uid) that already exists differs from what
\* it receives for a validation failure, so that the caller can branch on it.
C15_DuplicateDistinct == [][DuplicateOutcomeDiffers]_vars


\* a step that is an add_memory, update_memory or soft_delete_memory call
\* returning False leaves the four tables as they were
FailedCallChangesNothing ==
    (/\ last'.op \in {"add_memory", "update_memory", "soft_delete_memory"}
     /\ last'.ret = FALSE
     /\ steps' # steps /\ now' = now)
    => /\ users' = users
       /\ memories' = memories
       /\ embeddings' = embeddings
       /\ audit_log' = audit_log

\* C16: failed calls leave the store untouched: an add_memory, update_memory
\* or soft_delete_memory call that returns False raises nothing and leaves
\* the users, memories, embeddings and audit_log tables exactly as before.
C16_FailedCallsUntouched == [][FailedCallChangesNothing]_vars


(***************************************************************************)
(* MemoryStoreFixed with an audit_log insert that may fail: every call     *)
(* draws whether its _audit_log write succeeds.                            *)
(***************************************************************************)
\* the callers and requests offered while the audit insert may fail
AuditUids == {"u1", "u2"}
AuditRequests == {<<Empty, NoMetadata>>, <<Short, NoMetadata>>}

AuditAddMemory ==
    \E uid \in AuditUids, req \in AuditRequests, memory_id \in MemoryIds,
       audit_ok \in BOOLEAN :
        /\ Step
        /\ Fixed_add_memory(uid, req[1], req[2], memory_id, audit_ok)
        /\ UNCHANGED <<now, storeVars, utilVars>>

AuditUpdateMemory ==
    \E uid \in AuditUids, memory_id \in KnownIds, req \in AuditRequests,
       audit_ok \in BOOLEAN :
        /\ Step
        /\ Fixed_update_memory(uid, memory_id, req[1], req[2], audit_ok)
        /\ UNCHANGED <<now, storeVars, utilVars>>

AuditSoftDeleteMemory ==
    \E uid \in AuditUids, memory_id \in KnownIds, audit_ok \in BOOLEAN :
        /\ Step
        /\ Fixed_soft_delete_memory(uid, memory_id, audit_ok)
        /\ UNCHANGED <<now, storeVars, utilVars>>

AuditPurgeDeleted ==
    \E uid \in AuditUids, days_old \in DaysOld, audit_ok \in BOOLEAN :
        /\ Step
        /\ Fixed_purge_deleted(uid, days_old, audit_ok)
        /\ UNCHANGED <<now, storeVars, utilVars>>

NextAudit ==
    \/ AuditAddMemory
    \/ AuditUpdateMemory
    \/ AuditSoftDeleteMemory
    \/ AuditPurgeDeleted
    \/ Tick

SpecAudit == Init /\ [][NextAudit]_vars

\* the memories row and the embeddings row of (memory_id, uid) hold what the
\* call wrote: the stored form of content, the version, the time of the write
PrimaryWritten(uid, memory_id, content, version) ==
    /\ \E r \in memories' :
          /\ r.id = memory_id /\ r.uid = uid
          /\ r.content = Compressed[content][1]
          /\ r.compressed = Compressed[content][2]
          /\ r.version = version
          /\ r.updated_at = now
    /\ \E e \in embeddings' :
          e.memory_id = memory_id /\ e.uid = uid /\ e.created_at = now

\* a call made in this step that appended nothing to audit_log
NoAuditEntry(op) ==
    last'.op = op /\ steps' # steps /\ now' = now /\ audit_log' = audit_log

\* a call whose primary write goes through and whose audit insert fails
\* returns its success value, and the primary write is in the tables
AuditFailureNonFatal ==
    /\ NoAuditEntry("add_memory")
       => \A uid \in AuditUids, req \in AuditRequests, memory_id \in MemoryIds :
            (/\ ~ content_invalid(req[1]) /\ ~ uid_invalid(uid)
             /\ ~ insert_raises(effective_id(uid, memory_id), uid)
             /\ Fixed_add_memory(uid, req[1], req[2], memory_id, FALSE))
            => /\ last'.ret = TRUE
               /\ PrimaryWritten(uid, effective_id(uid, memory_id), req[1], 1)
    /\ NoAuditEntry("update_memory")
       => \A uid \in AuditUids, memory_id \in KnownIds, req \in AuditRequests :
            (/\ ~ content_invalid(req[1])
             /\ active_rows(uid, memory_id) # {}
             /\ Fixed_update_memory(uid, memory_id, req[1], req[2], FALSE))
            => /\ last'.ret = TRUE
               /\ \A old \in active_rows(uid, memory_id) :
                     PrimaryWritten(uid, memory_id, req[1], old.version + 1)
    /\ NoAuditEntry("soft_delete_memory")
       => \A uid \in AuditUids, memory_id \in KnownIds :
            (/\ soft_delete_rows(uid, memory_id) # {}
             /\ Fixed_soft_delete_memory(uid, memory_id, FALSE))
            => /\ last'.ret = TRUE
               /\ \A r \in memories' :
                     (r.id = memory_id /\ r.uid = uid) => r.deleted_at = now
    /\ NoAuditEntry("purge_deleted")
       => \A uid \in AuditUids, days_old \in DaysOld :
            (/\ cutoff_date(now, days_old) # AttributeError
             /\ purge_rows(uid, cutoff_date(now, days_old)) # {}
             /\ Fixed_purge_deleted(uid, days_old, FALSE))
            => /\ last'.ret = Cardinality(purge_rows(uid, cutoff_date(now, days_old)))
               /\ memories' = memories \ purge_rows(uid, cutoff_date(now, days_old))

\* C17: audit failure is non-fatal: when writing the audit entry fails during
\* add_memory, update_memory, soft_delete_memory or purge_deleted, the call
\* still returns its success value and the primary write to memories and
\* embeddings stays committed.
C17_AuditNonFatal == [][AuditFailureNonFatal]_vars

\* an update went through and returned True although neither its audit entry
\* nor the one of the add before it could be written
C17_Witness ==
    /\ last.op = "update_memory" /\ last.ret = TRUE
    /\ audit_log = <<>>
    /\ \E r \in memories : r.version = 2


(***************************************************************************)
(* The audit trail of MemoryStoreFixed, checked under SpecFixed (every     *)
(* audit insert succeeds).                                                 *)
(***************************************************************************)
\* the action name written by each call
audit_action(op) ==
    CASE op = "add_memory" -> "CREATE"
      [] op = "update_memory" -> "UPDATE"
      [] op = "soft_delete_memory" -> "DELETE"

\* this step is one of the three calls and it returned True
ReturnedSuccess ==
    /\ steps' # steps /\ now' = now
    /\ last'.op \in {"add_memory", "update_memory", "soft_delete_memory"}
    /\ last'.ret = TRUE

\* the row of memories that entry names carries the mark of the call:
\* created now at version 1, rewritten now at a later version, or deleted now
EntryNamesWrittenRow(entry) ==
    \E r \in memories' :
        /\ r.id = entry.memory_id /\ r.uid = entry.uid
        /\ CASE entry.action = "CREATE" ->
                  r \notin memories /\ r.version = 1 /\ r.created_at = now
             [] entry.action = "UPDATE" ->
                  /\ r \notin memories /\ r.updated_at = now
                  /\ \E old \in memories :
                        /\ old.id = r.id /\ old.uid = r.uid
                        /\ r.version = old.version + 1
             [] entry.action = "DELETE" -> r.deleted_at = now
             [] OTHER -> FALSE

\* a successful call appends exactly one entry, of its own action, naming the
\* (uid, memory id) it wrote; every other step leaves audit_log as it is
AuditTrail ==
    IF ReturnedSuccess
    THEN /\ Len(audit_log') = Len(audit_log) + 1
         /\ SubSeq(audit_log', 1, Len(audit_log)) = audit_log
         /\ LET entry == audit_log'[Len(audit_log')]
            IN  /\ entry.action = audit_action(last'.op)
                /\ entry.timestamp = now
                /\ EntryNamesWrittenRow(entry)
    ELSE audit_log' = audit_log

\* C18: audit trail: with calls one after another and audit writes succeeding,
\* audit_log is append-only and equals, in order, the calls that returned
\* success: one CREATE per successful add_memory, one UPDATE per successful
\* update_memory, one DELETE per successful soft_delete_memory, each with the
\* caller's uid and the memory id; a call that returns False appends nothing
\* and no entry is ever changed or removed.
C18_AuditTrail == [][AuditTrail]_vars

\* an add, an update and a soft delete succeeded in this order, with one call
\* among them that failed, and the log holds their three entries
C18_Witness ==
    /\ steps = 4 /\ now = 0
    /\ Len(audit_log) = 3
    /\ audit_log[1].action = "CREATE"
    /\ audit_log[2].action = "UPDATE"
    /\ audit_log[3].action = "DELETE"
    /\ last.op = "soft_delete_memory"


(***************************************************************************)
(* MemoryStore.rebuild_index, checked under SpecStore.                     *)
(***************************************************************************)
\* a vector of the configured dimension with every component zero
AllZero(v) == Len(v) = dimension /\ \A i \in 1..Len(v) : v[i] = 0

\* an embeddings row without its vector
embedding_key(e) == [memory_id |-> e.memory_id, rowid |-> e.rowid]

\* after a rebuild in which embed_text returned embedded[id] for memory id
Rebuilt(embedded) ==
    /\ \A r \in db_memories :
          /\ Cardinality({e \in db_embeddings' : e.memory_id = r.id}) = 1
          /\ \A e \in db_embeddings' :
                e.memory_id = r.id
                => IF embedded[r.id] = NoVector
                   THEN AllZero(e.embedding)
                   ELSE e.embedding = embedded[r.id]
    /\ db_memories' = db_memories
    /\ {embedding_key(e) : e \in db_embeddings'} =
       {embedding_key(e) : e \in db_embeddings}
    /\ Cardinality(db_embeddings') = Cardinality(db_embeddings)
    /\ memories_cache' = NoCache
    /\ embeddings_cache' = NoCache

RebuildDegrades ==
    (last'.op = "Store.rebuild_index" /\ now' = now /\ steps' # steps)
    => \A embedded \in [{r.id : r \in db_memories} -> Vectors \cup {NoVector}] :
          (db_memories # {} /\ Store_rebuild_index(embedded)) => Rebuilt(embedded)

\* C19: rebuild_index degrades instead of aborting: when the embedder returns
\* None for some memories, those memories end with an all-zero embedding of
\* the configured dimension, every other memory ends with its freshly
\* computed embedding, the set of memory rows and of embedding rows is
\* unchanged, and both caches are invalidated.
C19_RebuildDegrades == [][RebuildDegrades]_vars

\* a rebuild on a store with loaded caches left one memory with the zero
\* vector and another with a new embedding
C19_Witness ==
    /\ last.op = "Store.rebuild_index" /\ last.log = "rebuilt" /\ last.had_cache
    /\ memories_cache = NoCache /\ embeddings_cache = NoCache
    /\ \E e \in db_embeddings : AllZero(e.embedding)
    /\ \E e \in db_embeddings : ~ AllZero(e.embedding)
    /\ Cardinality(db_memories) = 2


(***************************************************************************)
(* The listing of MemoryStoreFixed, checked under SpecFixed.               *)
(***************************************************************************)
\* the (limit, offset) pages asked for
Pages == {<<DEFAULT_LIMIT, 0>>, <<1, 0>>, <<1, 1>>, <<2, 1>>}

\* the active rows of uid
ActiveOf(uid) == {r \in memories : r.uid = uid /\ r.deleted_at = NULL}

Min(a, b) == IF a < b THEN a ELSE b

\* lst is the page (limit, offset) of the active rows of uid, most recently
\* updated first: of the right length, without repetition, and the entry at
\* place i stands at rank offset + i among the rows by updated_at
IsPage(lst, uid, limit, offset) ==
    LET n == Cardinality(ActiveOf(uid))
        newer(t) == Cardinality({r \in ActiveOf(uid) : r.updated_at > t})
        not_older(t) == Cardinality({r \in ActiveOf(uid) : r.updated_at >= t})
    IN  /\ Len(lst) = Min(limit, IF n > offset THEN n - offset ELSE 0)
        /\ \A i \in 1..Len(lst) :
              /\ \E r \in ActiveOf(uid) : row_dict(r) = lst[i]
              /\ newer(lst[i].updated_at) <= offset + i - 1
              /\ offset + i <= not_older(lst[i].updated_at)
        /\ \A i, j \in 1..Len(lst) : lst[i] = lst[j] => i = j
        /\ \A i, j \in 1..Len(lst) : i < j => lst[i].updated_at >= lst[j].updated_at

ListedByRecency ==
    \A uid \in Uids, page \in Pages :
        \A lst \in get_user_memories(uid, page[1], page[2]) :
            IsPage(lst, uid, page[1], page[2])

\* right after an update_memory that returned True, the rewritten memory
\* stands before every memory of its user that was last changed earlier
UpdatedListedFirst ==
    (/\ last'.op = "update_memory" /\ last'.ret = TRUE
     /\ steps' # steps /\ now' = now)
    => \A uid \in Uids :
          \A lst \in get_user_memories(uid, DEFAULT_LIMIT, 0)' :
             \A i, j \in 1..Len(lst) :
                (/\ lst[i] \notin {row_dict(r) : r \in memories}
                 /\ lst[j].updated_at < now)
                => i < j

\* C20: get_user_memories(uid, limit, offset) returns the active records of
\* uid ordered most-recently-updated first, skipping the first offset of them
\* and returning at most limit; a memory that was just updated is listed
\* before every memory of the same user whose last change is older.
C20_ListedByRecency == []ListedByRecency /\ [][UpdatedListedFirst]_vars

\* u1 holds two active memories created at the same time; the one updated
\* later fills the first page of one and the other fills the second
C20_Witness ==
    /\ last.op = "update_memory" /\ last.ret = TRUE
    /\ \E r1, r2 \in ActiveOf("u1") :
          /\ r1.version = 2 /\ r1.updated_at = now
          /\ r2.updated_at < r1.updated_at
          /\ r1.created_at = r2.created_at
          /\ get_user_memories("u1", 1, 0) = {<<row_dict(r1)>>}
          /\ get_user_memories("u1", 1, 1) = {<<row_dict(r2)>>}


(***************************************************************************)
(* MemoryStore.add_batch: add_memory called for each item in turn.  The    *)
(* embedder is given by the set of its invocations (counted within the     *)
(* call) that return None; the clock is read once per item and either      *)
(* stands still during the call or advances by one between two items.      *)
(***************************************************************************)
MaxBatch == 3       \* items in one batch

\* memories_data: dicts with 'content' and no 'metadata', no 'id'
BatchItems == {[content |-> Short], [content |-> Empty]}
Batches == UNION {[1..n -> BatchItems] : n \in 0..MaxBatch}

\* the invocations of embed_text that return None: none, the first, the second
EmbedderFailures == {{}, {1}, {2}}

\* the vector embed_text returns otherwise
BatchVectors == {<<1, 0>>}

\* the running state of the loop: both tables, success_count, the number of
\* embed_text invocations made so far, the clock
batch_start == [mem |-> db_memories, emb |-> db_embeddings, success_count |-> 0,
                calls |-> 0, t |-> now]

\* one add_memory(content, None, None) inside the loop
batch_add_memory(st, content, fails, embedding, advance) ==
    LET t_next == IF advance THEN st.t + 1 ELSE st.t
        payload == Compressed[content]
        mid == store_generated_id(st.t)
    IN  IF content_invalid(content)
        THEN \* return False before embed_text is reached
             [st EXCEPT !.t = t_next]
        ELSE IF (st.calls + 1) \in fails
        THEN \* embedding is None: return False
             [st EXCEPT !.calls = @ + 1, !.t = t_next]
        ELSE IF \/ \E r \in st.mem : r.id = mid
                \/ \E e \in st.emb : e.memory_id = mid
        THEN \* sqlite3.IntegrityError: return False
             [st EXCEPT !.calls = @ + 1, !.t = t_next]
        ELSE [mem |-> st.mem \cup
                      {[rowid |-> next_rowid(st.mem), id |-> mid,
                        content |-> payload[1], metadata |-> json_dumps(NoMetadata),
                        created_at |-> st.t, compressed |-> payload[2]]},
              emb |-> st.emb \cup
                      {[rowid |-> next_rowid(st.emb), memory_id |-> mid,
                        embedding |-> embedding]},
              success_count |-> st.success_count + 1,
              calls |-> st.calls + 1,
              t |-> t_next]

\* for mem_data in memories_data: from item i on
RECURSIVE add_batch_from(_, _, _, _, _, _)
add_batch_from(memories_data, i, st, fails, embedding, advance) ==
    IF i > Len(memories_data) THEN st
    ELSE add_batch_from(memories_data, i + 1,
                        batch_add_memory(st, memories_data[i].content, fails,
                                         embedding, advance),
                        fails, embedding, advance)

Store_add_batch(memories_data, fails, embedding, advance) ==
    LET end == add_batch_from(memories_data, 1, batch_start, fails, embedding, advance)
    IN  /\ db_memories' = end.mem
        /\ db_embeddings' = end.emb
        /\ IF end.success_count > 0
           THEN invalidate_cache
           ELSE UNCHANGED <<memories_cache, embeddings_cache>>
        /\ now' = IF advance /\ Len(memories_data) > 0
                  THEN now + Len(memories_data) - 1 ELSE now
        /\ last' = [op |-> "Store.add_batch", had_cache |-> memories_cache # NoCache,
                    ret |-> end.success_count, log |-> "batch"]

StoreAddBatch ==
    \E memories_data \in Batches, fails \in EmbedderFailures,
       embedding \in BatchVectors, advance \in BOOLEAN :
        /\ Step
        /\ Store_add_batch(memories_data, fails, embedding, advance)
        /\ UNCHANGED <<rng, fixedVars, utilVars>>

NextBatch ==
    \/ StoreAddBatch
    \/ StoreDeleteById
    \/ Tick

SpecBatch == Init /\ [][NextBatch]_vars

\* the batch [non-empty, empty content, non-empty]
PartialFailureBatch == <<[content |-> Short], [content |-> Empty], [content |-> Short]>>

\* the count returned is the number of rows the call stored
BatchCountsStored ==
    last'.ret = Cardinality(db_memories' \ db_memories)

\* the batch [non-empty, empty, non-empty], with an embedder that returns None
\* on its second invocation only, stores the first and the third item (the
\* clock advancing between the items, so that the generated ids differ)
PartialFailureStoresTwo ==
    \A embedding \in BatchVectors :
        Store_add_batch(PartialFailureBatch, {2}, embedding, TRUE)
        => /\ last'.ret = 2
           /\ \E r \in db_memories' \ db_memories : r.created_at = now
           /\ \E r \in db_memories' \ db_memories : r.created_at = now + 2

\* a step that is an add_batch call (a clock tick changes neither last nor
\* the table)
BatchPartialFailure ==
    /\ (last'.op = "Store.add_batch"
        /\ (last' # last \/ db_memories' # db_memories)) => BatchCountsStored
    /\ last'.op = "Store.add_batch" => PartialFailureStoresTwo

\* the first half alone
BatchCounts ==
    [][(last'.op = "Store.add_batch"
        /\ (last' # last \/ db_memories' # db_memories)) => BatchCountsStored]_vars

\* C21: add_batch returns the number of items whose add succeeded and keeps
\* processing after an item fails; for a batch [non-empty, empty-content,
\* non-empty] with an embedder that returns None only on its second
\* invocation, only the first and third items are stored and the returned
\* count is 2.
C21_BatchPartialFailure == [][BatchPartialFailure]_vars


(***************************************************************************)
(* CircuitBreaker (error_handling_fix.py): record_success, record_failure  *)
(* and is_available called one after another, the clock advancing between *)
(* calls.                                                                  *)
(***************************************************************************)
MaxBreakerSteps == 7    \* calls and clock ticks on one breaker

FailureThresholds == {1, 2}
RecoveryTimeouts == {1, 2}
SuccessThresholds == {1, 2}

InitBreaker ==
    /\ InitProcess
    /\ codec = NoContent
    /\ \E failure_threshold \in FailureThresholds,
          recovery_timeout \in RecoveryTimeouts,
          success_threshold \in SuccessThresholds :
          breaker = new_breaker(failure_threshold, recovery_timeout, success_threshold)
    /\ limiter = new_limiter(60, 1000, 0)
    /\ callers = [t \in Threads |-> idle_caller]
    /\ backoff = new_backoff(3, 10, 600, 2)

BreakerStep ==
    /\ steps < MaxBreakerSteps
    /\ steps' = steps + 1

\* variant: record_success leaves failure_count as it is
failure_count_kept(failure_count) == failure_count

\* record_success: self.failure_count = 0
failure_count_after_success(failure_count) == 0

RecordSuccess ==
    /\ BreakerStep
    /\ LET closes == /\ breaker.state = HALF_OPEN
                     /\ breaker.success_count + 1 >= breaker.success_threshold
       IN  breaker' =
             [breaker EXCEPT
                !.failure_count = failure_count_after_success(@),
                !.success_count =
                    IF breaker.state = HALF_OPEN
                    THEN (IF closes THEN 0 ELSE @ + 1)
                    ELSE @,
                !.state = IF closes THEN CLOSED ELSE @,
                !.consecutive_failures = 0,
                !.recovery_successes = IF breaker.state = HALF_OPEN THEN @ + 1 ELSE @]
    /\ last' = [op |-> "record_success", ret |-> NULL, log |-> "none"]
    /\ UNCHANGED <<now, rng, fixedVars, storeVars, codec, limiter, callers, backoff, raceVars>>

RecordFailure ==
    /\ BreakerStep
    /\ breaker' =
         [breaker EXCEPT
            !.failure_count = @ + 1,
            !.last_failure_time = now,
            !.state = IF breaker.state = CLOSED
                      THEN (IF breaker.failure_count + 1 >= breaker.failure_threshold
                            THEN OPEN ELSE CLOSED)
                      ELSE IF breaker.state = HALF_OPEN THEN OPEN
                      ELSE @,
            !.success_count = IF breaker.state = HALF_OPEN THEN 0 ELSE @,
            !.consecutive_failures = @ + 1]
    /\ last' = [op |-> "record_failure", ret |-> NULL, log |-> "none"]
    /\ UNCHANGED <<now, rng, fixedVars, storeVars, codec, limiter, callers, backoff, raceVars>>

\* (datetime.now(timezone.utc) - self.last_failure_time).total_seconds()
elapsed == now - breaker.last_failure_time

IsAvailable ==
    /\ BreakerStep
    /\ IF breaker.state = CLOSED
       THEN /\ last' = [op |-> "is_available", ret |-> TRUE, log |-> "none"]
            /\ UNCHANGED breaker
       ELSE IF breaker.state = OPEN
       THEN IF breaker.last_failure_time # NULL /\ elapsed >= breaker.recovery_timeout
            THEN /\ breaker' = [breaker EXCEPT !.state = HALF_OPEN,
                                               !.success_count = 0,
                                               !.recovery_successes = 0]
                 /\ last' = [op |-> "is_available", ret |-> TRUE, log |-> "recovery"]
            ELSE /\ last' = [op |-> "is_available", ret |-> FALSE, log |-> "none"]
                 /\ UNCHANGED breaker
       ELSE /\ last' = [op |-> "is_available", ret |-> TRUE, log |-> "none"]
            /\ UNCHANGED breaker
    /\ UNCHANGED <<now, rng, fixedVars, storeVars, codec, limiter, callers, backoff, raceVars>>

\* a second passes
BreakerTick ==
    /\ BreakerStep
    /\ now' = now + 1
    /\ UNCHANGED <<rng, last, fixedVars, storeVars, codec, apiVars, raceVars>>

NextBreaker ==
    \/ RecordSuccess
    \/ RecordFailure
    \/ IsAvailable
    \/ BreakerTick

SpecBreaker == InitBreaker /\ [][NextBreaker]_vars

\* this step is the call named op
BreakerCall(op) == last'.op = op /\ steps' # steps /\ now' = now

\* the transitions out of each state, told from the history of recorded calls
\* and from the clock
BreakerTransitions ==
    /\ breaker.state = CLOSED =>
         /\ BreakerCall("record_failure") =>
              breaker'.state =
                 IF breaker'.consecutive_failures >= breaker.failure_threshold
                 THEN OPEN ELSE CLOSED
         /\ ~ BreakerCall("record_failure") => breaker'.state = CLOSED
         /\ BreakerCall("is_available") => last'.ret = TRUE
    /\ breaker.state = OPEN =>
         /\ BreakerCall("is_available") =>
              IF now - breaker.last_failure_time >= breaker.recovery_timeout
              THEN last'.ret = TRUE /\ breaker'.state = HALF_OPEN
              ELSE last'.ret = FALSE /\ breaker'.state = OPEN
         /\ ~ BreakerCall("is_available") => breaker'.state = OPEN
         /\ BreakerCall("record_failure") => breaker'.last_failure_time = now
    /\ breaker.state = HALF_OPEN =>
         /\ BreakerCall("record_success") =>
              breaker'.state =
                 IF breaker'.recovery_successes >= breaker.success_threshold
                 THEN CLOSED ELSE HALF_OPEN
         /\ BreakerCall("record_failure") => breaker'.state = OPEN
         /\ BreakerCall("is_available") =>
              last'.ret = TRUE /\ breaker'.state = HALF_OPEN
         /\ (~ BreakerCall("record_success") /\ ~ BreakerCall("record_failure")) =>
              breaker'.state = HALF_OPEN

\* CLOSED at the start, and never CLOSED with failure_threshold failures counted
BreakerClosedBelowThreshold ==
    /\ steps = 0 => breaker.state = CLOSED
    /\ breaker.state \in {CLOSED, OPEN, HALF_OPEN}
    /\ breaker.state = CLOSED => breaker.failure_count < breaker.failure_threshold
    /\ breaker.state = OPEN => breaker.last_failure_time # NULL

\* C22: CircuitBreaker follows exactly these transitions: it starts CLOSED; in
\* CLOSED it becomes OPEN once failure_threshold failures have been recorded
\* with no success in between; while OPEN, is_available returns False until
\* recovery_timeout seconds have passed since the last recorded failure, and
\* the first is_available after that returns True and moves it to HALF_OPEN;
\* in HALF_OPEN, success_threshold recorded successes move it to CLOSED and
\* one recorded failure moves it back to OPEN; whenever the state is CLOSED,
\* failure_count < failure_threshold.
C22_BreakerTransitions == []BreakerClosedBelowThreshold /\ [][BreakerTransitions]_vars

\* a breaker that opened after two failures, waited out its timeout, became
\* half-open and has been closed again by its second success
C22_Witness ==
    /\ breaker.failure_threshold = 2 /\ breaker.success_threshold = 2
    /\ breaker.state = CLOSED /\ breaker.last_failure_time # NULL
    /\ last.op = "record_success"
    /\ now >= breaker.last_failure_time + breaker.recovery_timeout


(***************************************************************************)
(* api_utils.RateLimiter with several threads in acquire.  Each statement  *)
(* of acquire is a step of the calling thread; time.time() is `now`, in    *)
(* seconds.                                                                *)
(***************************************************************************)
MaxAcquires == 4        \* acquire calls started in one behaviour
MaxRefillTicks == 2     \* times the clock advances

REQUESTS_PER_MINUTE == 2
REQUESTS_PER_HOUR == 3
TickSeconds == 30

\* the tokens argument of acquire
TokenRequests == {1, 2}

InitLimiter ==
    /\ InitProcess
    /\ codec = NoContent
    /\ breaker = new_breaker(5, 60, 2)
    /\ limiter = new_limiter(REQUESTS_PER_MINUTE, REQUESTS_PER_HOUR, 0)
    /\ callers = [t \in Threads |-> idle_caller]
    /\ backoff = new_backoff(3, 10, 600, 2)

limiterFrame == <<steps, rng, fixedVars, storeVars, codec, breaker, backoff, raceVars>>

\* a thread enters acquire(tokens) and reaches `with self.lock`
AcquireCall(t) ==
    /\ callers[t].pc = "idle"
    /\ limiter.calls < MaxAcquires
    /\ \E tokens \in TokenRequests :
          callers' = [callers EXCEPT ![t] = [idle_caller EXCEPT !.pc = "lock",
                                                               !.tokens = tokens]]
    /\ limiter' = [limiter EXCEPT !.calls = @ + 1]
    /\ UNCHANGED <<now, last, limiterFrame>>

\* variant: the with statement lets a thread in while another holds the lock
lock_free_always(holder) == TRUE

\* threading.Lock: acquired only when no thread holds it
lock_free(holder) == holder = NULL

\* with self.lock: (entry)
AcquireLock(t) ==
    /\ callers[t].pc = "lock"
    /\ lock_free(limiter.lock)
    /\ limiter' = [limiter EXCEPT !.lock = t]
    /\ callers' = [callers EXCEPT ![t].pc = "refill"]
    /\ UNCHANGED <<now, last, limiterFrame>>

Min2(a, b) == IF a < b THEN a ELSE b

\* self._refill_tokens()
refill_tokens(l, t) ==
    LET minute_elapsed == t - l.last_minute_refill
        minute_tokens_to_add ==
            (minute_elapsed * l.requests_per_minute * TokenUnit) \div 60
        hour_elapsed == t - l.last_hour_refill
        hour_tokens_to_add ==
            (hour_elapsed * l.requests_per_hour * TokenUnit) \div 3600
    IN  [l EXCEPT
           !.minute_tokens = Min2(l.requests_per_minute * TokenUnit,
                                  l.minute_tokens + minute_tokens_to_add),
           !.last_minute_refill = t,
           !.hour_tokens = Min2(l.requests_per_hour * TokenUnit,
                                l.hour_tokens + hour_tokens_to_add),
           !.last_hour_refill = t]

AcquireRefill(t) ==
    /\ callers[t].pc = "refill"
    /\ limiter' = refill_tokens(limiter, now)
    /\ callers' = [callers EXCEPT ![t].pc = "check",
                                  ![t].minute_seen = limiter'.minute_tokens,
                                  ![t].hour_seen = limiter'.hour_tokens]
    /\ UNCHANGED <<now, last, limiterFrame>>

\* if self.minute_tokens >= tokens and self.hour_tokens >= tokens:
AcquireCheck(t) ==
    /\ callers[t].pc = "check"
    /\ callers' = [callers EXCEPT ![t].pc =
                      IF /\ limiter.minute_tokens >= callers[t].tokens * TokenUnit
                         /\ limiter.hour_tokens >= callers[t].tokens * TokenUnit
                      THEN "take_minute" ELSE "return_false"]
    /\ UNCHANGED <<now, last, limiter, limiterFrame>>

\* self.minute_tokens -= tokens
AcquireTakeMinute(t) ==
    /\ callers[t].pc = "take_minute"
    /\ limiter' = [limiter EXCEPT !.minute_tokens = @ - callers[t].tokens * TokenUnit]
    /\ callers' = [callers EXCEPT ![t].pc = "take_hour"]
    /\ UNCHANGED <<now, last, limiterFrame>>

\* self.hour_tokens -= tokens
AcquireTakeHour(t) ==
    /\ callers[t].pc = "take_hour"
    /\ limiter' = [limiter EXCEPT !.hour_tokens = @ - callers[t].tokens * TokenUnit]
    /\ callers' = [callers EXCEPT ![t].pc = "return_true"]
    /\ UNCHANGED <<now, last, limiterFrame>>

\* return True / return False, leaving the with block
AcquireReturn(t) ==
    /\ callers[t].pc \in {"return_true", "return_false"}
    /\ limiter' = [limiter EXCEPT
                     !.lock = IF @ = t THEN NULL ELSE @,
                     !.granted = IF callers[t].pc = "return_true"
                                 THEN @ + callers[t].tokens ELSE @]
    /\ callers' = [callers EXCEPT ![t].pc = "idle"]
    /\ last' = [op |-> "acquire", ret |-> callers[t].pc = "return_true",
                log |-> "none"]
    /\ UNCHANGED <<now, limiterFrame>>

\* half a minute passes
LimiterTick ==
    /\ now < MaxRefillTicks * TickSeconds
    /\ now' = now + TickSeconds
    /\ UNCHANGED <<last, limiter, callers, limiterFrame>>

NextLimiter ==
    \/ \E t \in Threads : AcquireCall(t)
    \/ \E t \in Threads : AcquireLock(t)
    \/ \E t \in Threads : AcquireRefill(t)
    \/ \E t \in Threads : AcquireCheck(t)
    \/ \E t \in Threads : AcquireTakeMinute(t)
    \/ \E t \in Threads : AcquireTakeHour(t)
    \/ \E t \in Threads : AcquireReturn(t)
    \/ LimiterTick

SpecLimiter == InitLimiter /\ [][NextLimiter]_vars

\* both buckets stay between 0 and their capacities
BucketsInRange ==
    /\ 0 <= limiter.minute_tokens
    /\ limiter.minute_tokens <= limiter.requests_per_minute * TokenUnit
    /\ 0 <= limiter.hour_tokens
    /\ limiter.hour_tokens <= limiter.requests_per_hour * TokenUnit

\* while the clock has not advanced there was no refill, and the tokens
\* granted so far do not exceed requests_per_minute
GrantedWithinMinute ==
    now = 0 => limiter.granted <= limiter.requests_per_minute

\* a call that returns True saw at least `tokens` in both buckets after its
\* refill and leaves both exactly `tokens` lower than it saw them; a call that
\* returns False leaves both as it saw them
AcquireAtomic ==
    \A t \in Threads :
        (callers[t].pc # "idle" /\ callers'[t].pc = "idle")
        => IF last'.ret
           THEN /\ callers[t].minute_seen >= callers[t].tokens * TokenUnit
                /\ callers[t].hour_seen >= callers[t].tokens * TokenUnit
                /\ limiter'.minute_tokens =
                      callers[t].minute_seen - callers[t].tokens * TokenUnit
                /\ limiter'.hour_tokens =
                      callers[t].hour_seen - callers[t].tokens * TokenUnit
           ELSE /\ limiter'.minute_tokens = callers[t].minute_seen
                /\ limiter'.hour_tokens = callers[t].hour_seen
                /\ \/ callers[t].minute_seen < callers[t].tokens * TokenUnit
                   \/ callers[t].hour_seen < callers[t].tokens * TokenUnit

\* C23: RateLimiter under concurrent callers: minute_tokens and hour_tokens
\* always stay between 0 and their capacities; acquire(n) returns True only
\* if, after refill, both buckets hold at least n tokens, and then lowers
\* both by n as one atomic step; a call that returns False lowers neither
\* bucket; with no refill, threads calling acquire() concurrently are granted
\* at most requests_per_minute tokens in total.
C23_RateLimiter ==
    /\ [](BucketsInRange /\ GrantedWithinMinute)
    /\ [][AcquireAtomic]_vars

\* two threads were granted the whole minute bucket before the clock moved,
\* and a third one is queued on the lock behind a thread in the with block
C23_Witness ==
    /\ now = 0
    /\ limiter.granted = limiter.requests_per_minute
    /\ limiter.minute_tokens = 0
    /\ \E t, u \in Threads :
          /\ callers[t].pc = "return_false" /\ limiter.lock = t
          /\ callers[u].pc = "lock"


(***************************************************************************)
(* api_utils.ExponentialBackoff.retry: one call, func returning or raising *)
(* an Exception at each invocation.                                        *)
(***************************************************************************)
MaxRetries == 3         \* largest max_retries configured

InitialDelays == {1, 2}
MaxDelays == {3, 5}
BackoffFactors == {2, 3}

InitBackoff ==
    /\ InitProcess
    /\ codec = NoContent
    /\ breaker = new_breaker(5, 60, 2)
    /\ limiter = new_limiter(60, 1000, 0)
    /\ callers = [t \in Threads |-> idle_caller]
    /\ \E max_retries \in 0..MaxRetries, initial_delay \in InitialDelays,
          max_delay \in MaxDelays, backoff_factor \in BackoffFactors :
          backoff = new_backoff(max_retries, initial_delay, max_delay, backoff_factor)

backoffFrame == <<steps, rng, last, fixedVars, storeVars, codec, breaker,
                  limiter, callers, raceVars>>

\* for attempt in range(self.max_retries + 1): the loop is over
loop_done == backoff.attempt >= backoff.max_retries + 1

\* return func(*args, **kwargs): func returns
InvokeReturns ==
    /\ backoff.pc = "call" /\ ~ loop_done
    /\ LET k == Len(backoff.invoked) + 1
       IN  backoff' = [backoff EXCEPT !.invoked = Append(@, <<"returned", k>>),
                                      !.outcome = <<"returned", k>>,
                                      !.pc = "done"]
    /\ UNCHANGED <<now, backoffFrame>>

\* func raises; except Exception as e: last_exception = e
InvokeRaises ==
    /\ backoff.pc = "call" /\ ~ loop_done
    /\ LET k == Len(backoff.invoked) + 1
       IN  backoff' = [backoff EXCEPT
                         !.invoked = Append(@, <<"raised", k>>),
                         !.last_exception = <<"raised", k>>,
                         !.pc = IF backoff.attempt < backoff.max_retries
                                THEN "sleep" ELSE "raise"]
    /\ UNCHANGED <<now, backoffFrame>>

\* variant: the delay is not capped
retry_delay_uncapped(b, attempt) == b.initial_delay * (b.backoff_factor ^ attempt)

\* delay = min(self.initial_delay * (self.backoff_factor ** attempt), self.max_delay)
retry_delay(b, attempt) ==
    Min2(b.initial_delay * (b.backoff_factor ^ attempt), b.max_delay)

\* time.sleep(delay), then the next round of the loop
Sleep ==
    /\ backoff.pc = "sleep"
    /\ backoff' = [backoff EXCEPT
                     !.slept = Append(@, retry_delay(backoff, backoff.attempt)),
                     !.attempt = @ + 1,
                     !.pc = "call"]
    /\ now' = now + retry_delay(backoff, backoff.attempt)
    /\ UNCHANGED backoffFrame

\* raise last_exception
RaiseLast ==
    /\ backoff.pc = "raise"
    /\ backoff' = [backoff EXCEPT !.outcome = backoff.last_exception, !.pc = "done"]
    /\ UNCHANGED <<now, backoffFrame>>

NextBackoff ==
    \/ InvokeReturns
    \/ InvokeRaises
    \/ Sleep
    \/ RaiseLast

\* the thread running retry keeps running, and func returns or raises
SpecBackoff == InitBackoff /\ [][NextBackoff]_vars /\ WF_vars(NextBackoff)

\* the delay before the retry that follows the k-th failed attempt, k from 0
ExpectedDelay(k) ==
    LET grown == backoff.initial_delay * (backoff.backoff_factor ^ k)
    IN  IF grown < backoff.max_delay THEN grown ELSE backoff.max_delay

RetryBounded ==
    /\ Len(backoff.invoked) <= backoff.max_retries + 1
    \* every invocation but the last one raised
    /\ \A k \in 1..Len(backoff.invoked) - 1 : backoff.invoked[k][1] = "raised"
    \* one sleep after each failed attempt that is followed by a retry
    /\ Len(backoff.slept) =
          IF backoff.pc \in {"call"} THEN Len(backoff.invoked)
          ELSE Len(backoff.invoked) - 1
    /\ \A k \in 1..Len(backoff.slept) : backoff.slept[k] = ExpectedDelay(k - 1)
    /\ backoff.pc = "done" =>
          /\ backoff.outcome = backoff.invoked[Len(backoff.invoked)]
          /\ backoff.outcome[1] = "raised" =>
                Len(backoff.invoked) = backoff.max_retries + 1

\* once retry has returned or raised, func is not called and nothing sleeps
RetryStops ==
    backoff.pc = "done" => backoff' = backoff

RetryTerminates == <>(backoff.pc = "done")

\* C24: ExponentialBackoff.retry always terminates: it invokes the function
\* at most max_retries + 1 times, returns the result of the first invocation
\* that does not raise without calling it again, sleeps exactly once before
\* each retry with delay min(initial_delay * backoff_factor^k, max_delay) for
\* the k-th failed attempt (k from 0), and after the last attempt fails
\* raises that attempt's exception.
C24_RetryTerminates ==
    /\ []RetryBounded
    /\ [][RetryStops]_vars
    /\ RetryTerminates

\* three retries, the last delay cut down to max_delay, and the exception of
\* the fourth invocation raised
C24_Witness ==
    /\ backoff.pc = "done" /\ backoff.max_retries = 3
    /\ backoff.outcome = <<"raised", 4>>
    /\ Len(backoff.slept) = 3
    /\ backoff.slept[3] = backoff.max_delay
    /\ backoff.slept[3] < backoff.initial_delay * (backoff.backoff_factor ^ 2)
    /\ backoff.slept[1] = backoff.initial_delay


(***************************************************************************)
(* MemoryStoreFixed with update_memory calls that overlap other calls.     *)
(* update_memory reads the version on one connection and writes on a       *)
(* second one; each connection's work is one step (SQLite serialises       *)
(* transactions), and other calls may run between the two.                 *)
(***************************************************************************)
MaxRaceSteps == 8       \* steps of the overlapping calls in one behaviour

RaceStep ==
    /\ steps < MaxRaceSteps
    /\ steps' = steps + 1

RaceUid == "u1"
RaceMemoryId == "m1"
RaceRequests == {<<Short, NoMetadata>>, <<Long, Tagged>>}

raceFixedFrame == <<now, storeVars, codec, apiVars>>

\* add_memory(uid, content, None, memory_id), the whole call
RaceAddMemory ==
    /\ RaceStep
    /\ Fixed_add_memory(RaceUid, Short, NoMetadata, RaceMemoryId, TRUE)
    /\ UNCHANGED <<workers, raceFixedFrame>>

\* soft_delete_memory(uid, memory_id), the whole call
RaceSoftDeleteMemory ==
    /\ RaceStep
    /\ Fixed_soft_delete_memory(RaceUid, RaceMemoryId, TRUE)
    /\ UNCHANGED <<workers, raceFixedFrame>>

\* update_memory up to the end of its first connection: the validation,
\* _ensure_user_exists, SELECT version ... AND deleted_at IS NULL
UpdateVerify(w) ==
    \E req \in RaceRequests :
        /\ RaceStep
        /\ workers[w].pc = "idle"
        /\ ~ content_invalid(req[1])
        /\ users' = ensure_user_exists(RaceUid)
        /\ IF active_rows(RaceUid, RaceMemoryId) = {}
           THEN /\ last' = [op |-> "update_memory", ret |-> FALSE, log |-> "not_found"]
                /\ UNCHANGED workers
           ELSE /\ workers' =
                     [workers EXCEPT ![w] =
                        [pc |-> "write", uid |-> RaceUid, memory_id |-> RaceMemoryId,
                         content |-> req[1], metadata |-> req[2],
                         new_version |->
                            new_version(CHOOSE r \in active_rows(RaceUid, RaceMemoryId) : TRUE)]]
                /\ UNCHANGED last
        /\ UNCHANGED <<rng, memories, embeddings, audit_log, updates, written,
                       raceFixedFrame>>

\* the second connection: BEGIN, UPDATE memories ... WHERE id = ? AND uid = ?
\* AND deleted_at IS NULL, UPDATE embeddings ... WHERE memory_id = ? AND
\* uid = ?, commit.  The call returns True from here on, whatever the two
\* statements matched
UpdateWrite(w) ==
    LET me == workers[w]
        payload == Compressed[me.content]
        target == active_rows(me.uid, me.memory_id)
    IN  /\ RaceStep
        /\ me.pc = "write"
        /\ rng' = rng + 1
        /\ memories' =
             (memories \ target) \cup
             {[r EXCEPT !.content = payload[1],
                        !.metadata = json_dumps(me.metadata),
                        !.updated_at = now,
                        !.compressed = payload[2],
                        !.version = me.new_version] : r \in target}
        /\ embeddings' =
             {IF e.memory_id = me.memory_id /\ e.uid = me.uid
              THEN [e EXCEPT !.embedding = randn(rng), !.created_at = now]
              ELSE e : e \in embeddings}
        /\ updates' = [updates EXCEPT ![<<me.memory_id, me.uid>>] = @ + 1]
        /\ written' = [written EXCEPT ![<<me.memory_id, me.uid>>] = me.content]
        /\ workers' = [workers EXCEPT ![w].pc = "audit"]
        /\ UNCHANGED <<users, audit_log, last, raceFixedFrame>>

\* self._audit_log(uid, "UPDATE", ...); return True
UpdateReturn(w) ==
    /\ RaceStep
    /\ workers[w].pc = "audit"
    /\ audit_log' = audit_append(workers[w].uid, "UPDATE", workers[w].memory_id, TRUE)
    /\ last' = [op |-> "update_memory", ret |-> TRUE, log |-> "updated"]
    /\ workers' = [workers EXCEPT ![w] = idle_worker]
    /\ UNCHANGED <<rng, users, memories, embeddings, updates, written, raceFixedFrame>>

NextRaceFixed ==
    \/ RaceAddMemory
    \/ RaceSoftDeleteMemory
    \/ \E w \in Workers : UpdateVerify(w)
    \/ \E w \in Workers : UpdateWrite(w)
    \/ \E w \in Workers : UpdateReturn(w)

SpecRaceFixed == Init /\ [][NextRaceFixed]_vars

\* as after the calls in some serial order: the version of a row is 1 plus
\* the number of update_memory calls on it that return True
VersionCountsUpdates ==
    \A r \in memories :
        r.uid = RaceUid /\ r.id = RaceMemoryId
        => r.version = 1 + updates[<<r.id, r.uid>>]

\* the write of an update that returns True finds its row active and leaves
\* it with the new content, the next version and a new embedding
UpdateWritesActiveRow ==
    \A w \in Workers :
        (workers[w].pc = "write" /\ workers'[w].pc = "audit")
        => \E r \in memories :
              /\ r.id = workers[w].memory_id /\ r.uid = workers[w].uid
              /\ r.deleted_at = NULL
              /\ \E r2 \in memories' :
                    /\ r2.id = r.id /\ r2.uid = r.uid
                    /\ r2.version = r.version + 1
                    /\ r2.content = Compressed[workers[w].content][1]
              /\ \E e \in embeddings, e2 \in embeddings' :
                    /\ e.memory_id = r.id /\ e.uid = r.uid
                    /\ e2.memory_id = r.id /\ e2.uid = r.uid
                    /\ e2.embedding # e.embedding

\* C25: update_memory is atomic per call with respect to other mutating calls
\* on the same (id, uid): when two update_memory calls, or an update_memory
\* and a soft_delete_memory, interleave, the return values and final state
\* equal those of some serial order of the calls: two updates that both
\* return True raise version by 2, and an update that returns True has
\* changed the content, version and embedding of a row that was still active
\* when it wrote.
C25_UpdateAtomic == []VersionCountsUpdates /\ [][UpdateWritesActiveRow]_vars


(***************************************************************************)
(* Two threads on one MemoryStore instance.  The reader runs search and    *)
(* get_all, the writer add_memory and delete_by_id.  MemoryStore has no    *)
(* lock: each SELECT of a cache loader, the assignment of the cache        *)
(* attribute, the transaction of a mutating call and its                   *)
(* _invalidate_cache() are steps of their own, and the steps of the two    *)
(* threads interleave freely.  A reader keeps, with each cache it          *)
(* installed, the ids of the rows its SELECT returned.                     *)
(***************************************************************************)
Reader == 1
Writer == 2

OverlapCalls == {"search", "get_all"}
OverlapVectors == {<<1, 0>>, <<1, 1>>}
overlapFrame == <<rng, fixedVars, codec, apiVars>>

\* the ids behind the cache a thread installed last, <<>> before any
installed_from(w, cache) ==
    IF cache \in DOMAIN workers[w] THEN workers[w][cache] ELSE <<>>

\* where a call goes once _load_memories_cache has returned
after_memories(call) == IF call = "search" THEN "load_embeddings" ELSE "return"

\* search / get_all entering _load_memories_cache: return at once with a
\* cache in place, else run the SELECT on a connection of its own
LoadMemoriesSelect(w) ==
    /\ RaceStep
    /\ w = Reader
    /\ workers[w].pc = "idle"
    /\ \E call \in OverlapCalls :
          IF memories_cache # NoCache
          THEN workers' = [workers EXCEPT ![w] =
                   [pc |-> after_memories(call), call |-> call, rows |-> <<>>,
                    memories_from |-> installed_from(w, "memories_from"),
                    embeddings_from |-> installed_from(w, "embeddings_from")]]
          ELSE \E rows \in select_memories_desc :
                  workers' = [workers EXCEPT ![w] =
                      [pc |-> "install_memories", call |-> call, rows |-> rows,
                       memories_from |-> installed_from(w, "memories_from"),
                       embeddings_from |-> installed_from(w, "embeddings_from")]]
    /\ UNCHANGED <<now, last, storeVars, overlapFrame>>

\* _load_memories_cache after its SELECT: self._memories_cache = [] and one
\* dict per fetched row
LoadMemoriesInstall(w) ==
    /\ RaceStep
    /\ workers[w].pc = "install_memories"
    /\ LET rows == workers[w].rows
       IN  /\ memories_cache' = <<[i \in 1..Len(rows) |-> memory_dict(rows[i])]>>
           /\ workers' = [workers EXCEPT ![w].pc = after_memories(workers[w].call),
                                         ![w].rows = <<>>,
                                         ![w].memories_from =
                                             [i \in 1..Len(rows) |-> rows[i].id]]
    /\ UNCHANGED <<now, last, db_memories, db_embeddings, embeddings_cache, overlapFrame>>

\* search entering _load_embeddings_cache
LoadEmbeddingsSelect(w) ==
    /\ RaceStep
    /\ workers[w].pc = "load_embeddings"
    /\ IF embeddings_cache # NoCache
       THEN workers' = [workers EXCEPT ![w].pc = "return"]
       ELSE \E rows \in select_embeddings_desc :
               workers' = [workers EXCEPT ![w].pc = "install_embeddings",
                                          ![w].rows = rows]
    /\ UNCHANGED <<now, last, storeVars, overlapFrame>>

\* _load_embeddings_cache after its SELECT: np.vstack of the fetched rows
LoadEmbeddingsInstall(w) ==
    /\ RaceStep
    /\ workers[w].pc = "install_embeddings"
    /\ LET rows == workers[w].rows
       IN  /\ embeddings_cache' = <<[i \in 1..Len(rows) |-> rows[i].embedding]>>
           /\ workers' = [workers EXCEPT ![w].pc = "return",
                                         ![w].rows = <<>>,
                                         ![w].embeddings_from =
                                             [i \in 1..Len(rows) |-> rows[i].memory_id]]
    /\ UNCHANGED <<now, last, db_memories, db_embeddings, memories_cache, overlapFrame>>

\* what search returns with the two cache attributes as they are now
search_outcome(top_k, min_similarity, query_embedding) ==
    IF memories_cache = NoCache THEN [ret |-> <<>>, log |-> "empty_store"]
    ELSE IF Len(memories_cache[1]) = 0 THEN [ret |-> <<>>, log |-> "empty_store"]
    ELSE IF query_embedding = NoVector THEN [ret |-> <<>>, log |-> "embedding_failed"]
    ELSE IF embeddings_cache = NoCache THEN [ret |-> <<>>, log |-> "no_embeddings"]
    ELSE LET pairs == find_similar(query_embedding, embeddings_cache[1], top_k)
         IN  IF \E k \in 1..Len(pairs) :
                    /\ sim_geq(pairs[k][2], min_similarity)
                    /\ pairs[k][1] > Len(memories_cache[1])
             THEN [ret |-> <<>>, log |-> "IndexError"]
             ELSE [ret |-> search_results(pairs, memories_cache[1], min_similarity),
                   log |-> "results"]

\* search after the two loaders: the empty check, embed_text, find_similar
\* over self._embeddings_cache and the loop over self._memories_cache[idx]
SearchReturn(w) ==
    /\ RaceStep
    /\ workers[w].pc = "return"
    /\ workers[w].call = "search"
    /\ \E sr \in SearchRequests, query_embedding \in Vectors \cup {NoVector} :
          LET out == search_outcome(sr[1], sr[2], query_embedding)
          IN  last' = [op |-> "Store.search", ret |-> out.ret, log |-> out.log,
                       memories_from |-> workers[w].memories_from,
                       embeddings_from |-> workers[w].embeddings_from]
    /\ workers' = [workers EXCEPT ![w].pc = "idle"]
    /\ UNCHANGED <<now, storeVars, overlapFrame>>

\* get_all after _load_memories_cache: a copy of the cache cut to limit, or
\* the direct query when the attribute is None
GetAllReturn(w) ==
    /\ RaceStep
    /\ workers[w].pc = "return"
    /\ workers[w].call = "get_all"
    /\ \E limit \in Limits, mrows \in select_memories_desc :
          LET listed == IF memories_cache # NoCache THEN memories_cache[1]
                        ELSE [i \in 1..Len(mrows) |-> memory_dict(mrows[i])]
          IN  last' = [op |-> "Store.get_all",
                       ret |-> IF limit # 0 /\ limit < Len(listed)
                               THEN SubSeq(listed, 1, limit) ELSE listed,
                       log |-> "none"]
    /\ workers' = [workers EXCEPT ![w].pc = "idle"]
    /\ UNCHANGED <<now, storeVars, overlapFrame>>

\* add_memory up to conn.commit(): embed_text, then both INSERTs in one
\* transaction; sqlite3.IntegrityError rolls back and returns False
AddCommit(w) ==
    /\ RaceStep
    /\ w = Writer
    /\ workers[w].pc = "idle"
    /\ \E memory_id \in MemoryIds, embedding \in OverlapVectors :
          LET mid == IF memory_id = "" THEN store_generated_id(now) ELSE memory_id
              payload == Compressed[Short]
          IN  IF \/ \E r \in db_memories : r.id = mid
                 \/ \E e \in db_embeddings : e.memory_id = mid
              THEN /\ last' = [op |-> "Store.add_memory", ret |-> FALSE,
                               log |-> "integrity_error"]
                   /\ UNCHANGED <<db_memories, db_embeddings, workers>>
              ELSE /\ db_memories' = db_memories \cup
                         {[rowid |-> next_rowid(db_memories), id |-> mid,
                           content |-> payload[1],
                           metadata |-> json_dumps(NoMetadata), created_at |-> now,
                           compressed |-> payload[2]]}
                   /\ db_embeddings' = db_embeddings \cup
                         {[rowid |-> next_rowid(db_embeddings), memory_id |-> mid,
                           embedding |-> embedding]}
                   /\ workers' = [workers EXCEPT ![w] =
                          [pc |-> "invalidate", call |-> "Store.add_memory",
                           log |-> "added"]]
                   /\ UNCHANGED last
    /\ UNCHANGED <<now, memories_cache, embeddings_cache, overlapFrame>>

\* delete_by_id up to conn.commit(): the existence check and both DELETEs
DeleteCommit(w) ==
    /\ RaceStep
    /\ w = Writer
    /\ workers[w].pc = "idle"
    /\ \E memory_id \in {r.id : r \in db_memories} \cup {"m1"} :
          IF ~ \E r \in db_memories : r.id = memory_id
          THEN /\ last' = [op |-> "Store.delete_by_id", ret |-> FALSE,
                           log |-> "not_found"]
               /\ UNCHANGED <<db_memories, db_embeddings, workers>>
          ELSE /\ db_embeddings' = {e \in db_embeddings : e.memory_id # memory_id}
               /\ db_memories' = {r \in db_memories : r.id # memory_id}
               /\ workers' = [workers EXCEPT ![w] =
                      [pc |-> "invalidate", call |-> "Store.delete_by_id",
                       log |-> "deleted"]]
               /\ UNCHANGED last
    /\ UNCHANGED <<now, memories_cache, embeddings_cache, overlapFrame>>

\* the mutating call after its transaction: self._invalidate_cache(), return True
InvalidateReturn(w) ==
    /\ RaceStep
    /\ workers[w].pc = "invalidate"
    /\ invalidate_cache
    /\ last' = [op |-> workers[w].call, ret |-> TRUE, log |-> workers[w].log]
    /\ workers' = [workers EXCEPT ![w] = idle_worker]
    /\ UNCHANGED <<now, db_memories, db_embeddings, overlapFrame>>

\* the clock moves between two steps
OverlapTick ==
    /\ RaceStep
    /\ now' = now + 1
    /\ UNCHANGED <<last, workers, storeVars, overlapFrame>>

NextOverlap ==
    \/ \E w \in Workers : LoadMemoriesSelect(w)
    \/ \E w \in Workers : LoadMemoriesInstall(w)
    \/ \E w \in Workers : LoadEmbeddingsSelect(w)
    \/ \E w \in Workers : LoadEmbeddingsInstall(w)
    \/ \E w \in Workers : SearchReturn(w)
    \/ \E w \in Workers : GetAllReturn(w)
    \/ \E w \in Workers : AddCommit(w)
    \/ \E w \in Workers : DeleteCommit(w)
    \/ \E w \in Workers : InvalidateReturn(w)
    \/ OverlapTick

SpecOverlap == Init /\ [][NextOverlap]_vars

\* a search that got as far as find_similar
SearchCompared ==
    /\ last.op = "Store.search"
    /\ last.log \in {"results", "IndexError"}

\* C26: no torn reads: a MemoryStore.search that runs while an add_memory or
\* delete_by_id commits on the same database uses a memory list and an
\* embedding matrix that both come from the same committed state (both
\* loaded before the change or both after it), so the i-th row of the matrix
\* is the embedding of the i-th memory of the list and no index from
\* find_similar lies past the end of the list.
C26_NoTornReads ==
    SearchCompared =>
        /\ last.memories_from = last.embeddings_from
        /\ last.log # "IndexError"

\* every call has returned
AllReturned == \A w \in Workers : workers[w].pc = "idle"

\* C27: no stale cache after invalidation: once every call has returned, the
\* cached memory list of a MemoryStore instance is either unset or equal to
\* what a fresh load from the database would produce; a load that began
\* before a mutation committed never leaves its pre-mutation list installed
\* after the mutation's invalidation.
C27_NoStaleCache ==
    AllReturned =>
        \/ memories_cache = NoCache
        \/ \E rows \in select_memories_desc :
              memories_cache = <<[i \in 1..Len(rows) |-> memory_dict(rows[i])]>>


(***************************************************************************)
(* The two caches of one MemoryStore, calls made one after the other.      *)
(***************************************************************************)

\* the embedding stored for a memory id
embedding_of(memory_id) ==
    (CHOOSE e \in db_embeddings : e.memory_id = memory_id).embedding

BothCachesLoaded ==
    /\ memories_cache # NoCache
    /\ embeddings_cache # NoCache

other_memories(table, uid, memory_id) ==
    {r \in table : ~ (r.id = memory_id /\ r.uid = uid)}

other_embeddings(table, uid, memory_id) ==
    {e \in table : ~ (e.memory_id = memory_id /\ e.uid = uid)}

\* every row but the target's is as it was, and the target's row keeps its
\* id, uid and created_at
OthersAndKeyKept(uid, memory_id) ==
    /\ other_memories(memories', uid, memory_id) = other_memories(memories, uid, memory_id)
    /\ other_embeddings(embeddings', uid, memory_id) =
           other_embeddings(embeddings, uid, memory_id)
    /\ {<<r.id, r.uid, r.created_at>> : r \in memories' \ other_memories(memories', uid, memory_id)}
         = {<<r.id, r.uid, r.created_at>> : r \in memories \ other_memories(memories, uid, memory_id)}
    /\ {<<e.memory_id, e.uid>> : e \in embeddings' \ other_embeddings(embeddings', uid, memory_id)}
         = {<<e.memory_id, e.uid>> : e \in embeddings \ other_embeddings(embeddings, uid, memory_id)}

\* a step that is a call of op
IsCallOf(op) ==
    /\ last'.op = op
    /\ now' = now
    /\ steps' # steps

UpdateFrame ==
    IsCallOf("update_memory") =>
        \A uid \in AuditUids, memory_id \in KnownIds :
            (\E req \in AuditRequests, audit_ok \in BOOLEAN :
                Fixed_update_memory(uid, memory_id, req[1], req[2], audit_ok))
            => /\ OthersAndKeyKept(uid, memory_id)
               /\ last'.ret = TRUE =>
                     /\ \A r \in memories \ other_memories(memories, uid, memory_id) :
                           \E r2 \in memories' :
                               /\ r2.id = r.id /\ r2.uid = r.uid
                               /\ r2.updated_at = now
                               /\ r2.updated_at >= r.updated_at
                     /\ \A e \in embeddings \ other_embeddings(embeddings, uid, memory_id) :
                           \E e2 \in embeddings' :
                               /\ e2.memory_id = e.memory_id /\ e2.uid = e.uid
                               /\ e2.embedding # e.embedding
                               /\ e \notin embeddings'

SoftDeleteFrame ==
    IsCallOf("soft_delete_memory") =>
        \A uid \in AuditUids, memory_id \in KnownIds :
            (\E audit_ok \in BOOLEAN : Fixed_soft_delete_memory(uid, memory_id, audit_ok))
            => /\ OthersAndKeyKept(uid, memory_id)
               /\ embeddings' = embeddings
               /\ memories' \ other_memories(memories', uid, memory_id) =
                    {[r EXCEPT !.deleted_at = r2.deleted_at] :
                        r \in memories \ other_memories(memories, uid, memory_id),
                        r2 \in memories' \ other_memories(memories', uid, memory_id)}

IdlessUids == {"u1", "u2"}
IdlessRequests == {<<Short, NoMetadata>>, <<Long, Tagged>>}

\* MemoryStoreFixed.add_memory(uid, content, metadata): memory_id left out
IdlessAddMemory ==
    \E uid \in IdlessUids, req \in IdlessRequests :
        /\ Step
        /\ Fixed_add_memory(uid, req[1], req[2], "", TRUE)
        /\ UNCHANGED <<now, storeVars, utilVars>>

\* MemoryStore.add_memory(content, metadata): memory_id left out, the
\* embedder returning a vector
IdlessStoreAddMemory ==
    \E req \in IdlessRequests, embedding \in Vectors :
        /\ Step
        /\ Store_add_memory(req[1], req[2], "", embedding)
        /\ UNCHANGED <<now, rng, fixedVars, utilVars>>

NextIdless ==
    \/ IdlessAddMemory
    \/ IdlessStoreAddMemory
    \/ Tick

SpecIdless == Init /\ [][NextIdless]_vars

\* a valid add_memory without memory_id returns True and adds one row
IdlessAddCreatesRow ==
    /\ IsCallOf("add_memory") =>
          /\ last'.ret = TRUE
          /\ Cardinality(memories') = Cardinality(memories) + 1
    /\ IsCallOf("Store.add_memory") =>
          /\ last'.ret = TRUE
          /\ Cardinality(db_memories') = Cardinality(db_memories) + 1

\* C30: generated ids are unique per process: for every pair of add_memory
\* calls made without a memory_id in one process (same uid in
\* MemoryStoreFixed, any two calls in MemoryStore), however close together
\* in time, the two generated ids differ, so neither call fails as a
\* duplicate and two valid id-less adds always create two rows.
C30_GeneratedIdsUnique == [][IdlessAddCreatesRow]_vars

====
